---- MODULE Spec2Model ----
(***************************************************************************)
(* Model of the audio-delivery core of hume_ai_browser_streaming_playground *)
(*   WebAudioStreamer      src/unnamed/part_002  (the playback scheduler)   *)
(*   StreamingAudioBuffer  src/unnamed/part_005  (the sequence buffer)      *)
(*   ChunkValidator        src/lib/chunkValidator.ts                        *)
(*                                                                         *)
(* Time is counted in units of 0.05 s, so BUFFER_AHEAD_TIME (0.1 s) is 2    *)
(* and a 0.5 s buffer has duration 10: the clock can stand strictly inside  *)
(* the lookahead window.                                                    *)
(***************************************************************************)
EXTENDS Integers, Sequences, FiniteSets, TLC

\* ------------------------------------------------------------------ bounds
\* calls made on the streamer (enqueue, stop, resetSession)
MaxCalls == 4
\* free-running ticks of the audio clock (completion events also move it)
MaxClock == 2
\* decodeAudioData calls in flight at a time (the isPCM = false path)
MaxDecoding == 1
\* calls made on the sequence buffer (addAudioChunk, reset)
MaxBufCalls == 4
\* highest chunk index handed to addAudioChunk
MaxIndex == 2
\* segments each chunk of the three-chunk generation is delivered in
SegsPerChunk == 2
\* longest text handed to the validator, in characters
MaxTextLen == 2
\* enqueue calls made on the streamer when its backlog is exercised
MaxBacklogCalls == 11
\* TTS lines received in the interruption flow
MaxLines == 3
\* activities begun on the interruption page (generations and interruptions)
MaxActivities == 3
\* calls made on the sequence buffer while its callback re-enters it
MaxReentrantCalls == 3
\* text chunks of the example generated on the chunked page
NumChunks == 3
\* runs started on the chunked page
MaxRuns == 1

\* ------------------------------------------------------- program constants
BUFFER_AHEAD_TIME == 2
MAX_BUFFER_SIZE == 10

\* the volume 1.0, volumes being counted in tenths
FullVolume == 10
\* the levels handed to setVolume: below the range, its ends, inside, above
Volumes == {0 - 5, 0, 5, 10, 15}

\* durations of the decoded buffers handed to enqueue (0.2 s and 0.5 s)
Durations == {4, 10}

\* what a payload given to enqueue turns out to be:
\*   "ok"      decodes to a buffer of the payload's duration
\*   "corrupt" base64-decodes, then the PCM conversion / decodeAudioData throws
\*   "empty"   the empty string
PayloadKinds == {"ok", "corrupt", "empty"}

VARIABLES
    w,          \* the WebAudioStreamer instance and its AudioContext
    last,       \* the last streamer operation that ran, with what it saw
    nCalls,     \* calls made on the streamer so far
    b,          \* the StreamingAudioBuffer instance
    lastB,      \* the last call made on the buffer, with what it saw
    nBufCalls,  \* calls made on the buffer so far
    toDeliver,  \* segments of a three-chunk generation still to arrive
    completeLast, \* so far no chunk of it got a segment after its completing one
    added,      \* per chunk index, the segments handed to addAudioChunk and
                \* not skipped since construction / the last reset(), in order
    cv,         \* the ChunkValidator instance
    armed,      \* setExpectedText has been called since construction / reset()
    installed,  \* the text given to the last setExpectedText call since
                \* construction / reset(), as a sequence of one text (empty
                \* when there was no such call)
    lastV,      \* the last validateChunk call: its text, its verdict, and
                \* whether the call before it accepted the same text
    rejected,   \* the TTS lines of the interruption flow that validateChunk
                \* rejected (a line is named by the order of its arrival)
    page,       \* the interruption page: its generation flag and the
                \* activities begun on it (generateSpeech runs and stopAudio
                \* interruptions), each at its await
    chunked     \* the chunked page: its generation flags and the runs of
                \* its three start handlers, each at its awaits

streamerVars  == <<w, last, nCalls>>
bufferVars    == <<b, lastB, nBufCalls, toDeliver, completeLast, added>>
validatorVars == <<cv, armed, installed, lastV, rejected>>
pageVars      == <<page>>
chunkedVars   == <<chunked>>
vars == <<w, last, nCalls, b, lastB, nBufCalls, toDeliver, completeLast,
          added, cv, armed, installed, lastV, rejected, page,
          chunked>>

Max(x, y) == IF x >= y THEN x ELSE y

\* ------------------------------------------------------- WebAudioStreamer

\* new WebAudioStreamer(...): field initialisers and constructor.
\*   currentTime, ctxState, resumePromises : the AudioContext (its clock, its
\*       state attribute, the pending resume().then callbacks)
\*   decoding   : decodeAudioData calls in flight (the awaited MP3 path)
\*   ended      : sources stopped by stop() whose ended event is still to be
\*                dispatched
\*   listener   : the last value given to onPlaybackStateChange, as a
\*                sequence of one value (empty before the first call)
\*   started    : the source.start(when) calls of the current timeline, in
\*                order (emptied when the cursor is re-based)
\*   gain       : masterGain.gain.value (a new GainNode has gain 1)
\*   dropped    : the buffers shifted out of a full queue since the last
\*                resetSession()
\*   discarded  : the queued buffers thrown away by stop() since the last
\*                resetSession()
NewStreamer(ctxState) ==
    [ bufferQueue         |-> <<>>,
      isPlaying           |-> FALSE,
      nextStartTime       |-> 0 + BUFFER_AHEAD_TIME,
      scheduledSources    |-> <<>>,
      totalChunksReceived |-> 0,
      totalChunksPlayed   |-> 0,
      audioDataChunks     |-> <<>>,
      currentTime         |-> 0,
      ctxState            |-> ctxState,
      resumePromises      |-> 0,
      decoding            |-> {},
      ended               |-> {},
      listener            |-> <<>>,
      started             |-> <<>>,
      gain                |-> FullVolume,
      dropped             |-> 0,
      discarded           |-> 0 ]

\* this.onPlaybackStateChange?.(v)
Notify(s, v) == [s EXCEPT !.listener = <<v>>]

\* scheduleChunks deriving the cursor from the clock instead of from the start
\* time it has just used
ScheduleOne_FromClock(s) ==
    LET audioBuffer == Head(s.bufferQueue)
        startTime   == s.nextStartTime
        source      == [id |-> audioBuffer.id, start |-> startTime,
                        duration |-> audioBuffer.duration]
    IN  [s EXCEPT !.bufferQueue = Tail(@),
                  !.nextStartTime = s.currentTime + audioBuffer.duration,
                  !.scheduledSources = Append(@, source),
                  !.totalChunksPlayed = @ + 1,
                  !.started = Append(@, source)]

\* scheduleChunks assigning the duration to the cursor instead of adding it
ScheduleOne_Assign(s) ==
    LET audioBuffer == Head(s.bufferQueue)
        startTime   == s.nextStartTime
        source      == [id |-> audioBuffer.id, start |-> startTime,
                        duration |-> audioBuffer.duration]
    IN  [s EXCEPT !.bufferQueue = Tail(@),
                  !.nextStartTime = audioBuffer.duration,
                  !.scheduledSources = Append(@, source),
                  !.totalChunksPlayed = @ + 1,
                  !.started = Append(@, source)]

\* one iteration of the while loop of scheduleChunks
ScheduleOne(s) ==
    LET audioBuffer == Head(s.bufferQueue)
        startTime   == s.nextStartTime
        source      == [id |-> audioBuffer.id, start |-> startTime,
                        duration |-> audioBuffer.duration]
    IN  [s EXCEPT !.bufferQueue = Tail(@),
                  !.nextStartTime = startTime + audioBuffer.duration,
                  !.scheduledSources = Append(@, source),
                  !.totalChunksPlayed = @ + 1,
                  !.started = Append(@, source)]

RECURSIVE ScheduleChunks(_)
ScheduleChunks(s) ==
    IF Len(s.bufferQueue) > 0 THEN ScheduleChunks(ScheduleOne(s)) ELSE s

\* continuePlayback that never re-bases the cursor on the clock
ContinuePlayback_NeverRebase(s) ==
    ScheduleChunks(Notify([s EXCEPT !.isPlaying = TRUE], TRUE))

\* continuePlayback that raises isPlaying and schedules nothing
ContinuePlayback_NoSchedule(s) ==
    Notify([s EXCEPT !.isPlaying = TRUE], TRUE)

ContinuePlayback(s) ==
    LET s1  == Notify([s EXCEPT !.isPlaying = TRUE], TRUE)
        now == s1.currentTime
        s2  == IF s1.nextStartTime <= now
               THEN [s1 EXCEPT !.nextStartTime = now + BUFFER_AHEAD_TIME,
                               !.started = <<>>]
               ELSE s1
    IN  ScheduleChunks(s2)

StartPlayback(s) ==
    IF Len(s.bufferQueue) = 0 THEN s
    ELSE IF s.ctxState = "suspended"
         THEN [s EXCEPT !.resumePromises = @ + 1]
         ELSE ContinuePlayback(s)

\* enqueue dropping the oldest buffer only once the queue is over capacity
EnqueueDecoded_OverCapacity(s, audioBuffer) ==
    LET s1 == IF Len(s.bufferQueue) > MAX_BUFFER_SIZE
              THEN [s EXCEPT !.bufferQueue = Tail(@),
                             !.dropped = @ + 1,
                             !.audioDataChunks =
                                 IF Len(@) > MAX_BUFFER_SIZE THEN Tail(@) ELSE @]
              ELSE s
        s2 == [s1 EXCEPT !.bufferQueue = Append(@, audioBuffer),
                         !.totalChunksReceived = @ + 1]
    IN  IF ~s2.isPlaying THEN StartPlayback(s2) ELSE ScheduleChunks(s2)

\* enqueue from "Drop oldest if buffer full" on: what runs once the payload
\* has been decoded to audioBuffer
EnqueueDecoded(s, audioBuffer) ==
    LET s1 == IF Len(s.bufferQueue) >= MAX_BUFFER_SIZE
              THEN [s EXCEPT !.bufferQueue = Tail(@),
                             !.dropped = @ + 1,
                             !.audioDataChunks =
                                 IF Len(@) > MAX_BUFFER_SIZE THEN Tail(@) ELSE @]
              ELSE s
        s2 == [s1 EXCEPT !.bufferQueue = Append(@, audioBuffer),
                         !.totalChunksReceived = @ + 1]
    IN  IF ~s2.isPlaying THEN StartPlayback(s2) ELSE ScheduleChunks(s2)

\* enqueue counting a chunk as received before it is decoded
Enqueue_CountsFailed(s, p, isPCM) ==
    IF p.kind = "empty" THEN s
    ELSE LET s1 == [s EXCEPT !.audioDataChunks = Append(@, p.id)]
         IN  IF isPCM
             THEN IF p.kind = "ok"
                  THEN EnqueueDecoded(s1, [id |-> p.id, duration |-> p.duration])
                  ELSE [s1 EXCEPT !.totalChunksReceived = @ + 1]
             ELSE [s1 EXCEPT !.decoding = @ \cup {p}]

\* enqueue(base64Data, isPCM) up to its first await (the whole call when
\* isPCM): p = [id, kind, duration]
Enqueue(s, p, isPCM) ==
    IF p.kind = "empty" THEN s
    ELSE LET s1 == [s EXCEPT !.audioDataChunks = Append(@, p.id)]
         IN  IF isPCM
             THEN IF p.kind = "ok"
                  THEN EnqueueDecoded(s1, [id |-> p.id, duration |-> p.duration])
                  ELSE s1
             ELSE [s1 EXCEPT !.decoding = @ \cup {p}]

\* the continuation of enqueue after await decodeAudioData(...)
DecodeSettled(s, p) ==
    LET s1 == [s EXCEPT !.decoding = @ \ {p}]
    IN  IF p.kind = "ok"
        THEN EnqueueDecoded(s1, [id |-> p.id, duration |-> p.duration])
        ELSE s1

\* the resume().then callbacks: the context resolves all its pending resume
\* promises together, and each callback runs continuePlayback
RECURSIVE RunResumeCallbacks(_)
RunResumeCallbacks(s) ==
    IF s.resumePromises = 0 THEN s
    ELSE RunResumeCallbacks(
             ContinuePlayback([s EXCEPT !.resumePromises = @ - 1]))

\* source.onended going Idle without telling the listener
OnEnded_Silent(s, id) ==
    LET idxs == {i \in 1..Len(s.scheduledSources) : s.scheduledSources[i].id = id}
        s1 == IF idxs # {}
              THEN LET index == CHOOSE i \in idxs : \A j \in idxs : i <= j
                   IN  [s EXCEPT !.scheduledSources =
                            SubSeq(@, 1, index - 1) \o SubSeq(@, index + 1, Len(@))]
              ELSE s
    IN  IF Len(s1.scheduledSources) = 0 /\ Len(s1.bufferQueue) = 0
        THEN [s1 EXCEPT !.isPlaying = FALSE]
        ELSE s1

\* onended that takes the oldest scheduled source off the list, whichever
\* source ended
OnEnded_DropsOldest(s, id) ==
    LET s1 == IF Len(s.scheduledSources) > 0
              THEN [s EXCEPT !.scheduledSources = Tail(@)]
              ELSE s
    IN  IF Len(s1.scheduledSources) = 0 /\ Len(s1.bufferQueue) = 0
        THEN Notify([s1 EXCEPT !.isPlaying = FALSE], FALSE)
        ELSE s1

\* source.onended of the source with identity id
OnEnded(s, id) ==
    LET idxs == {i \in 1..Len(s.scheduledSources) : s.scheduledSources[i].id = id}
        s1 == IF idxs # {}
              THEN LET index == CHOOSE i \in idxs : \A j \in idxs : i <= j
                   IN  [s EXCEPT !.scheduledSources =
                            SubSeq(@, 1, index - 1) \o SubSeq(@, index + 1, Len(@))]
              ELSE s
    IN  IF Len(s1.scheduledSources) = 0 /\ Len(s1.bufferQueue) = 0
        THEN Notify([s1 EXCEPT !.isPlaying = FALSE], FALSE)
        ELSE s1

\* stop() that forgets to discard the unscheduled buffers
Stop_KeepsQueue(s) ==
    LET stopped == {s.scheduledSources[i].id : i \in 1..Len(s.scheduledSources)}
        s1 == [s EXCEPT !.ended = @ \cup stopped,
                        !.scheduledSources = <<>>,
                        !.isPlaying = FALSE]
        s2 == Notify(s1, FALSE)
    IN  [s2 EXCEPT !.nextStartTime = s2.currentTime + BUFFER_AHEAD_TIME,
                   !.started = <<>>]

\* stop() moving the cursor on by the lookahead instead of re-basing it
Stop_AdvancesCursor(s) ==
    LET stopped == {s.scheduledSources[i].id : i \in 1..Len(s.scheduledSources)}
        s1 == [s EXCEPT !.ended = @ \cup stopped,
                        !.scheduledSources = <<>>,
                        !.bufferQueue = <<>>,
                        !.discarded = @ + Len(s.bufferQueue),
                        !.isPlaying = FALSE]
        s2 == Notify(s1, FALSE)
    IN  [s2 EXCEPT !.nextStartTime = @ + BUFFER_AHEAD_TIME,
                   !.started = <<>>]

Stop(s) ==
    LET stopped == {s.scheduledSources[i].id : i \in 1..Len(s.scheduledSources)}
        s1 == [s EXCEPT !.ended = @ \cup stopped,
                        !.scheduledSources = <<>>,
                        !.bufferQueue = <<>>,
                        !.discarded = @ + Len(s.bufferQueue),
                        !.isPlaying = FALSE]
        s2 == Notify(s1, FALSE)
    IN  [s2 EXCEPT !.nextStartTime = s2.currentTime + BUFFER_AHEAD_TIME,
                   !.started = <<>>]

\* resetSession() that stops playback and keeps the telemetry
ResetSession_KeepsTelemetry(s) == Stop(s)

\* resetSession() zeroing the received counter and keeping the played one
ResetSession_KeepsPlayed(s) ==
    [Stop(s) EXCEPT !.totalChunksReceived = 0,
                    !.audioDataChunks = <<>>,
                    !.dropped = 0,
                    !.discarded = 0]

ResetSession(s) ==
    [Stop(s) EXCEPT !.totalChunksReceived = 0,
                    !.totalChunksPlayed = 0,
                    !.audioDataChunks = <<>>,
                    !.dropped = 0,
                    !.discarded = 0]

Min(x, y) == IF x <= y THEN x ELSE y

\* setVolume handing the level to the gain node as it is
SetVolume_Unclamped(s, volume) == [s EXCEPT !.gain = volume]

SetVolume(s, volume) ==
    LET clampedVolume == Max(0, Min(FullVolume, volume))
    IN  [s EXCEPT !.gain = clampedVolume]

GetStatus(s) ==
    [ isPlaying        |-> s.isPlaying,
      queueSize        |-> Len(s.bufferQueue) + Len(s.scheduledSources),
      scheduledSources |-> Len(s.scheduledSources),
      totalChunksReceived |-> s.totalChunksReceived,
      totalChunksPlayed   |-> s.totalChunksPlayed,
      bufferOverflows  |-> 0,
      isBuffering      |-> Len(s.scheduledSources) = 0 /\ Len(s.bufferQueue) > 0 ]

\* ---------------------------------------------------- StreamingAudioBuffer

\* payload segments handed to addAudioChunk in the general specification
Segments == {"a", "b"}

\* new StreamingAudioBuffer(): the field initialisers.
\*   released : the onAudioReadyCallback invocations since construction or
\*              the last reset(), in order, each with the entry it released
\*   status   : the arguments of the last onBufferStatusCallback invocation
\*   onAudioReadyCallback, onBufferStatusCallback : whether one is set
\* (BufferedAudioChunk.timestamp is written and never read: left out)
NewBuffer ==
    [ audioQueue             |-> <<>>,
      nextExpectedIndex      |-> 0,
      processedChunks        |-> {},
      onAudioReadyCallback   |-> FALSE,
      onBufferStatusCallback |-> FALSE,
      released               |-> <<>>,
      status                 |-> [queuedChunks |-> 0, nextExpected |-> 0] ]

\* onAudioReady(callback)
OnAudioReady(s) == [s EXCEPT !.onAudioReadyCallback = TRUE]

\* onBufferStatus(callback)
OnBufferStatus(s) == [s EXCEPT !.onBufferStatusCallback = TRUE]

\* the buffer as the chunked page sets it up when it mounts
MountedBuffer == OnBufferStatus(OnAudioReady(NewBuffer))

\* readyChunk.audioData.join('')
RECURSIVE Join(_)
Join(segs) == IF segs = <<>> THEN "" ELSE Head(segs) \o Join(Tail(segs))

\* insertChunkInOrder appending the new entry instead of placing it by index
InsertChunkInOrder_Append(s, newChunk) ==
    LET q == s.audioQueue
    IN  IF \E i \in 1..Len(q) : q[i].chunkIndex = newChunk.chunkIndex
        THEN s
        ELSE [s EXCEPT !.audioQueue = Append(q, newChunk)]

\* insertChunkInOrder placing the new entry at the head of the queue
InsertChunkInOrder_AtFront(s, newChunk) ==
    LET q == s.audioQueue
    IN  IF \E i \in 1..Len(q) : q[i].chunkIndex = newChunk.chunkIndex
        THEN s
        ELSE [s EXCEPT !.audioQueue = <<newChunk>> \o q]

InsertChunkInOrder(s, newChunk) ==
    LET q == s.audioQueue
    IN  IF \E i \in 1..Len(q) : q[i].chunkIndex = newChunk.chunkIndex
        THEN s
        ELSE LET stops == {i \in 1..Len(q) : ~(q[i].chunkIndex < newChunk.chunkIndex)}
                 insertIndex == IF stops = {} THEN Len(q) + 1
                                ELSE CHOOSE i \in stops : \A j \in stops : i <= j
             IN  [s EXCEPT !.audioQueue =
                      SubSeq(q, 1, insertIndex - 1) \o <<newChunk>>
                          \o SubSeq(q, insertIndex, Len(q))]

\* the body of the while loop of processReadyChunks without its bookkeeping:
\* the chunk is emitted but neither recorded as processed nor counted
ReleaseHead_NoBookkeeping(s) ==
    LET readyChunk == Head(s.audioQueue)
        combinedAudio == Join(readyChunk.audioData)
    IN  [s EXCEPT !.audioQueue = Tail(@),
                  !.released = Append(@, [chunkIndex |-> readyChunk.chunkIndex,
                                          audioData |-> combinedAudio,
                                          isComplete |-> readyChunk.isComplete])]

\* the body of the while loop emitting the first segment only
ReleaseHead_FirstSegment(s) ==
    LET readyChunk == Head(s.audioQueue)
    IN  [s EXCEPT !.audioQueue = Tail(@),
                  !.released = Append(@, [chunkIndex |-> readyChunk.chunkIndex,
                                          audioData |-> readyChunk.audioData[1],
                                          isComplete |-> readyChunk.isComplete]),
                  !.processedChunks = @ \cup {readyChunk.chunkIndex},
                  !.nextExpectedIndex = @ + 1]

\* the body of the while loop of processReadyChunks
ReleaseHead(s) ==
    LET readyChunk == Head(s.audioQueue)
        combinedAudio == Join(readyChunk.audioData)
    IN  [s EXCEPT !.audioQueue = Tail(@),
                  !.released =
                      IF s.onAudioReadyCallback
                      THEN Append(@, [chunkIndex |-> readyChunk.chunkIndex,
                                      audioData |-> combinedAudio,
                                      isComplete |-> readyChunk.isComplete])
                      ELSE @,
                  !.processedChunks = @ \cup {readyChunk.chunkIndex},
                  !.nextExpectedIndex = @ + 1]

\* the loop condition without the comparison with nextExpectedIndex
HeadReady_AnyIndex(s) ==
    /\ Len(s.audioQueue) > 0
    /\ s.audioQueue[1].isComplete

\* the condition of the while loop of processReadyChunks
HeadReady(s) ==
    /\ Len(s.audioQueue) > 0
    /\ s.audioQueue[1].chunkIndex = s.nextExpectedIndex
    /\ s.audioQueue[1].isComplete

\* processReadyChunks with an if where the code has a while
ProcessReadyChunks_Once(s) ==
    IF HeadReady(s) THEN ReleaseHead(s) ELSE s

RECURSIVE ProcessReadyChunks(_)
ProcessReadyChunks(s) ==
    IF HeadReady(s) THEN ProcessReadyChunks(ReleaseHead(s)) ELSE s

\* addAudioChunk without its "skip if already processed" guard
AddAudioChunk_NoSkip(s, audioData, chunkIndex, isComplete) ==
    LET q == s.audioQueue
        found == {i \in 1..Len(q) : q[i].chunkIndex = chunkIndex}
        s1 == IF found # {}
              THEN LET i == CHOOSE k \in found : \A j \in found : k <= j
                   IN  [s EXCEPT !.audioQueue[i].audioData = Append(@, audioData),
                                 !.audioQueue[i].isComplete = isComplete]
              ELSE InsertChunkInOrder(s, [audioData  |-> <<audioData>>,
                                          chunkIndex |-> chunkIndex,
                                          isComplete |-> isComplete])
        s2 == ProcessReadyChunks(s1)
    IN  [s2 EXCEPT !.status = [queuedChunks |-> Len(s2.audioQueue),
                               nextExpected |-> s2.nextExpectedIndex]]

\* addAudioChunk that never clears the completeness flag of an entry
AddAudioChunk_StickyComplete(s, audioData, chunkIndex, isComplete) ==
    IF chunkIndex \in s.processedChunks THEN s
    ELSE LET q == s.audioQueue
             found == {i \in 1..Len(q) : q[i].chunkIndex = chunkIndex}
             s1 == IF found # {}
                   THEN LET i == CHOOSE k \in found : \A j \in found : k <= j
                        IN  [s EXCEPT !.audioQueue[i].audioData = Append(@, audioData),
                                      !.audioQueue[i].isComplete = @ \/ isComplete]
                   ELSE InsertChunkInOrder(s, [audioData  |-> <<audioData>>,
                                               chunkIndex |-> chunkIndex,
                                               isComplete |-> isComplete])
             s2 == ProcessReadyChunks(s1)
         IN  [s2 EXCEPT !.status = [queuedChunks |-> Len(s2.audioQueue),
                                    nextExpected |-> s2.nextExpectedIndex]]

AddAudioChunk(s, audioData, chunkIndex, isComplete) ==
    IF chunkIndex \in s.processedChunks THEN s
    ELSE LET q == s.audioQueue
             found == {i \in 1..Len(q) : q[i].chunkIndex = chunkIndex}
             s1 == IF found # {}
                   THEN LET i == CHOOSE k \in found : \A j \in found : k <= j
                        IN  [s EXCEPT !.audioQueue[i].audioData = Append(@, audioData),
                                      !.audioQueue[i].isComplete = isComplete]
                   ELSE InsertChunkInOrder(s, [audioData  |-> <<audioData>>,
                                               chunkIndex |-> chunkIndex,
                                               isComplete |-> isComplete])
             s2 == ProcessReadyChunks(s1)
         IN  IF s2.onBufferStatusCallback
             THEN [s2 EXCEPT !.status = [queuedChunks |-> Len(s2.audioQueue),
                                         nextExpected |-> s2.nextExpectedIndex]]
             ELSE s2

\* processReadyChunks when the registered onAudioReady callback, at its first
\* invocation, calls addAudioChunk(inner...) itself (and does not re-enter
\* from the invocations that call causes).  The callback runs after the
\* shift() and before processedChunks.add / nextExpectedIndex++, which then
\* act on the fields as the inner call left them.
ProcessReadyChunksReentered(s, inner) ==
    IF HeadReady(s)
    THEN LET readyChunk == Head(s.audioQueue)
             combinedAudio == Join(readyChunk.audioData)
             emitted == [s EXCEPT
                 !.audioQueue = Tail(@),
                 !.released = Append(@, [chunkIndex |-> readyChunk.chunkIndex,
                                         audioData |-> combinedAudio,
                                         isComplete |-> readyChunk.isComplete])]
             returned == AddAudioChunk(emitted, inner.audioData,
                                       inner.chunkIndex, inner.isComplete)
         IN  ProcessReadyChunks(
                 [returned EXCEPT
                     !.processedChunks = @ \cup {readyChunk.chunkIndex},
                     !.nextExpectedIndex = @ + 1])
    ELSE s

\* addAudioChunk up to its call of processReadyChunks
InsertSegment(s, audioData, chunkIndex, isComplete) ==
    LET q == s.audioQueue
        found == {i \in 1..Len(q) : q[i].chunkIndex = chunkIndex}
    IN  IF found # {}
        THEN LET i == CHOOSE k \in found : \A j \in found : k <= j
             IN  [s EXCEPT !.audioQueue[i].audioData = Append(@, audioData),
                           !.audioQueue[i].isComplete = isComplete]
        ELSE InsertChunkInOrder(s, [audioData  |-> <<audioData>>,
                                    chunkIndex |-> chunkIndex,
                                    isComplete |-> isComplete])

\* addAudioChunk with the re-entering callback registered
AddAudioChunkReentered(s, audioData, chunkIndex, isComplete, inner) ==
    IF chunkIndex \in s.processedChunks THEN s
    ELSE LET s2 == ProcessReadyChunksReentered(
                       InsertSegment(s, audioData, chunkIndex, isComplete), inner)
         IN  IF s2.onBufferStatusCallback
             THEN [s2 EXCEPT !.status = [queuedChunks |-> Len(s2.audioQueue),
                                         nextExpected |-> s2.nextExpectedIndex]]
             ELSE s2

\* what the inner call finds on entry, as a sequence of at most one record:
\* the index just emitted, whether it is recorded as released, and
\* nextExpectedIndex (empty when the outer call emits nothing)
EntryOfInnerCall(s, audioData, chunkIndex, isComplete) ==
    LET s1 == InsertSegment(s, audioData, chunkIndex, isComplete)
    IN  IF chunkIndex \notin s.processedChunks /\ HeadReady(s1)
        THEN << [ emitted      |-> s1.audioQueue[1].chunkIndex,
                  recorded     |-> s1.audioQueue[1].chunkIndex \in s1.processedChunks,
                  nextExpected |-> s1.nextExpectedIndex ] >>
        ELSE <<>>

GetBufferStatus(s) ==
    [ queuedChunks      |-> Len(s.audioQueue),
      nextExpectedIndex |-> s.nextExpectedIndex,
      waitingIndexes    |-> [i \in 1..Len(s.audioQueue) |-> s.audioQueue[i].chunkIndex] ]

\* reset that keeps the record of the released indices
BufferReset_KeepsProcessed(s) ==
    [s EXCEPT !.audioQueue = <<>>,
              !.nextExpectedIndex = 0,
              !.released = <<>>]

BufferReset(s) ==
    [s EXCEPT !.audioQueue = <<>>,
              !.nextExpectedIndex = 0,
              !.processedChunks = {},
              !.released = <<>>]

\* the chunk indices of the emissions so far, in order
ReleasedIndices == [j \in 1..Len(b.released) |-> b.released[j].chunkIndex]

\* ---------------------------------------------------------- ChunkValidator

\* a text is a sequence of characters; " " stands for any white space
Chars == {" ", "h", "H", "!"}
Texts == UNION {[1..n -> Chars] : n \in 0..MaxTextLen}

\* String.prototype.trim
RECURSIVE TrimStart(_)
TrimStart(t) == IF t # <<>> /\ Head(t) = " " THEN TrimStart(Tail(t)) ELSE t
RECURSIVE TrimEnd(_)
TrimEnd(t) ==
    IF t # <<>> /\ t[Len(t)] = " " THEN TrimEnd(SubSeq(t, 1, Len(t) - 1)) ELSE t
Trim(t) == TrimEnd(TrimStart(t))

NewValidator == [expectedText |-> <<>>]

\* setExpectedText that keeps a watermark already in force
SetExpectedText_FirstWins(s, text) ==
    [s EXCEPT !.expectedText = IF @ = <<>> THEN Trim(text) ELSE @]

\* setExpectedText storing the text as it is given
SetExpectedText_Untrimmed(s, text) == [s EXCEPT !.expectedText = text]

SetExpectedText(s, text) == [s EXCEPT !.expectedText = Trim(text)]

\* reset() that leaves the watermark in place
ValidatorReset_Keeps(s) == s

ValidatorReset(s) == [s EXCEPT !.expectedText = <<>>]

\* validateChunk comparing the incoming text untrimmed
ValidateChunk_NoTrim(s, incomingText) ==
    IF s.expectedText = <<>>
    THEN [isValid |-> FALSE, newPosition |-> 0, reason |-> "no expected text"]
    ELSE IF Trim(incomingText) = <<>>
         THEN [isValid |-> FALSE, newPosition |-> 0, reason |-> "empty chunk"]
         ELSE IF incomingText = s.expectedText
              THEN [isValid |-> TRUE, newPosition |-> 0, reason |-> "match"]
              ELSE [isValid |-> FALSE, newPosition |-> 0, reason |-> "mismatch"]

\* validateChunk accepting every transcript that starts with the watermark
ValidateChunk_Prefix(s, incomingText) ==
    IF s.expectedText = <<>>
    THEN [isValid |-> FALSE, newPosition |-> 0, reason |-> "no expected text"]
    ELSE LET cleanIncomingText == Trim(incomingText)
         IN  IF cleanIncomingText = <<>>
             THEN [isValid |-> FALSE, newPosition |-> 0, reason |-> "empty chunk"]
             ELSE IF /\ Len(cleanIncomingText) >= Len(s.expectedText)
                     /\ SubSeq(cleanIncomingText, 1, Len(s.expectedText))
                            = s.expectedText
                  THEN [isValid |-> TRUE, newPosition |-> 0, reason |-> "match"]
                  ELSE [isValid |-> FALSE, newPosition |-> 0, reason |-> "mismatch"]

ValidateChunk(s, incomingText) ==
    IF s.expectedText = <<>>
    THEN [isValid |-> FALSE, newPosition |-> 0, reason |-> "no expected text"]
    ELSE LET cleanIncomingText == Trim(incomingText)
         IN  IF cleanIncomingText = <<>>
             THEN [isValid |-> FALSE, newPosition |-> 0, reason |-> "empty chunk"]
             ELSE IF cleanIncomingText = s.expectedText
                  THEN [isValid |-> TRUE, newPosition |-> 0, reason |-> "match"]
                  ELSE [isValid |-> FALSE, newPosition |-> 0, reason |-> "mismatch"]

\* applyValidation(result): the validator after the call
ApplyValidation(s, result) == s

GetState(s) ==
    [ expectedText |-> s.expectedText,
      isActive     |-> s.expectedText # <<>> ]

IsActive(s) == s.expectedText # <<>>

GetExpectedText(s) == s.expectedText

\* ---------------------------------------------------------------- actions

\* what an operation saw when it was called (kind: the payload it was given;
\* again: the operation before it was the same operation; volume: the level
\* it was given)
Seen(op) ==
    [ op      |-> op,
      sources |-> {w.scheduledSources[i].id : i \in 1..Len(w.scheduledSources)},
      queued  |-> Len(w.bufferQueue),
      cursor  |-> w.nextStartTime,
      playing |-> w.isPlaying,
      kind    |-> "none",
      again   |-> last.op = op,
      volume  |-> 0 ]

\* enqueue(base64Data) / enqueue(base64Data, true): every caller in the
\* repository takes this synchronous PCM path
EnqueueCall ==
    /\ nCalls < MaxCalls
    /\ \E kind \in PayloadKinds, d \in Durations :
         /\ kind # "ok" => d = 4
         /\ w' = Enqueue(w, [id |-> nCalls + 1, kind |-> kind, duration |-> d], TRUE)
         /\ last' = [Seen("enqueue") EXCEPT !.kind = kind]
    /\ nCalls' = nCalls + 1
    /\ UNCHANGED <<chunkedVars, pageVars, bufferVars, validatorVars>>

\* enqueue(base64Data) of a producer that outruns playback: as EnqueueCall,
\* with enough calls to fill the queue, every buffer 0.2 s long
BacklogEnqueueCall ==
    /\ nCalls < MaxBacklogCalls
    /\ \E kind \in {"ok", "corrupt"} :
         /\ w' = Enqueue(w, [id |-> nCalls + 1, kind |-> kind, duration |-> 4], TRUE)
         /\ last' = [Seen("enqueue") EXCEPT !.kind = kind]
    /\ nCalls' = nCalls + 1
    /\ UNCHANGED <<chunkedVars, pageVars, bufferVars, validatorVars>>

\* stop() of the consumer of such a producer, at any moment between two
\* enqueue calls
BacklogStopCall ==
    /\ w' = Stop(w)
    /\ last' = Seen("stop")
    /\ UNCHANGED <<chunkedVars, pageVars, nCalls, bufferVars, validatorVars>>

\* enqueue(base64Data, false), up to the await
EnqueueMP3Call ==
    /\ nCalls < MaxCalls
    /\ Cardinality(w.decoding) < MaxDecoding
    /\ \E kind \in {"ok", "corrupt"}, d \in Durations :
         /\ kind # "ok" => d = 4
         /\ w' = Enqueue(w, [id |-> nCalls + 1, kind |-> kind, duration |-> d], FALSE)
         /\ last' = [Seen("enqueueMP3") EXCEPT !.kind = kind]
    /\ nCalls' = nCalls + 1
    /\ UNCHANGED <<chunkedVars, pageVars, bufferVars, validatorVars>>

DecodeDone ==
    /\ \E p \in w.decoding :
         /\ w' = DecodeSettled(w, p)
         /\ last' = [Seen("decoded") EXCEPT !.kind = p.kind]
    /\ UNCHANGED <<chunkedVars, pageVars, nCalls, bufferVars, validatorVars>>

ResumeResolved ==
    /\ w.resumePromises > 0
    /\ w' = RunResumeCallbacks([w EXCEPT !.ctxState = "running"])
    /\ last' = Seen("resumed")
    /\ UNCHANGED <<chunkedVars, pageVars, nCalls, bufferVars, validatorVars>>

\* a scheduled source plays to its end: the clock is then at least at its end
SourceEnded ==
    /\ \E i \in 1..Len(w.scheduledSources) :
         LET src == w.scheduledSources[i]
         IN  w' = OnEnded([w EXCEPT !.currentTime =
                               Max(@, src.start + src.duration)], src.id)
    /\ last' = Seen("ended")
    /\ UNCHANGED <<chunkedVars, pageVars, nCalls, bufferVars, validatorVars>>

\* the ended event of a source that stop() terminated
StoppedSourceEnded ==
    /\ \E id \in w.ended : w' = OnEnded([w EXCEPT !.ended = @ \ {id}], id)
    /\ last' = Seen("endedAfterStop")
    /\ UNCHANGED <<chunkedVars, pageVars, nCalls, bufferVars, validatorVars>>

StopCall ==
    /\ nCalls < MaxCalls
    /\ w' = Stop(w)
    /\ last' = Seen("stop")
    /\ nCalls' = nCalls + 1
    /\ UNCHANGED <<chunkedVars, pageVars, bufferVars, validatorVars>>

ResetSessionCall ==
    /\ nCalls < MaxCalls
    /\ w' = ResetSession(w)
    /\ last' = Seen("resetSession")
    /\ nCalls' = nCalls + 1
    /\ UNCHANGED <<chunkedVars, pageVars, bufferVars, validatorVars>>

SetVolumeCall ==
    /\ nCalls < MaxCalls
    /\ \E volume \in Volumes :
         /\ w' = SetVolume(w, volume)
         /\ last' = [Seen("setVolume") EXCEPT !.volume = volume]
    /\ nCalls' = nCalls + 1
    /\ UNCHANGED <<chunkedVars, pageVars, bufferVars, validatorVars>>

\* the audio clock runs while the context does
Tick ==
    /\ w.ctxState = "running"
    /\ w.currentTime < MaxClock
    /\ w' = [w EXCEPT !.currentTime = @ + 1]
    /\ UNCHANGED <<chunkedVars, pageVars, last, nCalls, bufferVars, validatorVars>>

\* the chunk indices handed to the buffer
Indices == 0..Max(MaxIndex, 2)

\* no segment handed in yet
NoneAdded == [i \in Indices |-> <<>>]

\* the segments per index after addAudioChunk(audioData, chunkIndex, ...) was
\* called on the buffer s: the call is skipped when the index was released
Added(s, log, audioData, chunkIndex) ==
    IF chunkIndex \in s.processedChunks THEN log
    ELSE [log EXCEPT ![chunkIndex] = Append(@, audioData)]

\* what a call on the buffer saw when it was made
SeenB(op, chunkIndex, isComplete) ==
    [ op           |-> op,
      chunkIndex   |-> chunkIndex,
      isComplete   |-> isComplete,
      wasProcessed |-> chunkIndex \in b.processedChunks,
      waiting      |-> GetBufferStatus(b).waitingIndexes,
      released     |-> Len(b.released),
      wasComplete  |-> \E k \in 1..Len(b.audioQueue) :
                          /\ b.audioQueue[k].chunkIndex = chunkIndex
                          /\ b.audioQueue[k].isComplete,
      inner        |-> <<>> ]

AddAudioChunkCall ==
    /\ nBufCalls < MaxBufCalls
    /\ \E audioData \in Segments, chunkIndex \in 0..MaxIndex, isComplete \in BOOLEAN :
         /\ b' = AddAudioChunk(b, audioData, chunkIndex, isComplete)
         /\ lastB' = SeenB("add", chunkIndex, isComplete)
         /\ added' = Added(b, added, audioData, chunkIndex)
    /\ nBufCalls' = nBufCalls + 1
    /\ UNCHANGED <<chunkedVars, pageVars, toDeliver, completeLast, streamerVars, validatorVars>>

\* an addAudioChunk call made while the re-entering callback is registered
ReentrantAddCall ==
    /\ nBufCalls < MaxReentrantCalls
    /\ \E audioData \in Segments, chunkIndex \in 0..MaxIndex, isComplete \in BOOLEAN,
          inner \in [audioData : {"r"}, chunkIndex : 0..MaxIndex, isComplete : BOOLEAN] :
         /\ b' = AddAudioChunkReentered(b, audioData, chunkIndex, isComplete, inner)
         /\ lastB' = [SeenB("add", chunkIndex, isComplete) EXCEPT
                !.inner = EntryOfInnerCall(b, audioData, chunkIndex, isComplete)]
         /\ added' =
              LET outer == Added(b, added, audioData, chunkIndex)
              IN  IF EntryOfInnerCall(b, audioData, chunkIndex, isComplete) = <<>>
                  THEN outer
                  ELSE Added(b, outer, inner.audioData, inner.chunkIndex)
    /\ nBufCalls' = nBufCalls + 1
    /\ UNCHANGED <<chunkedVars, pageVars, toDeliver, completeLast, streamerVars, validatorVars>>

BufferResetCall ==
    /\ nBufCalls < MaxBufCalls
    /\ b' = BufferReset(b)
    /\ lastB' = SeenB("reset", 0, FALSE)
    /\ added' = NoneAdded
    /\ nBufCalls' = nBufCalls + 1
    /\ UNCHANGED <<chunkedVars, pageVars, toDeliver, completeLast, streamerVars, validatorVars>>

\* the segments of one generation of three chunks (indices 0, 1, 2): each chunk
\* comes in SegsPerChunk segments, the last of which carries isComplete
Generation ==
    { [chunkIndex |-> i, seg |-> k, isComplete |-> (k = SegsPerChunk)] :
          i \in 0..2, k \in 1..SegsPerChunk }

\* one more segment of the generation arrives, in any order
SegmentArrives ==
    /\ \E x \in toDeliver :
         /\ b' = AddAudioChunk(b, ToString(x.seg), x.chunkIndex, x.isComplete)
         /\ lastB' = SeenB("add", x.chunkIndex, x.isComplete)
         /\ added' = Added(b, added, ToString(x.seg), x.chunkIndex)
         /\ toDeliver' = toDeliver \ {x}
         /\ completeLast' =
                (completeLast /\ (x.isComplete =>
                     \A y \in toDeliver \ {x} : y.chunkIndex # x.chunkIndex))
    /\ UNCHANGED <<chunkedVars, pageVars, nBufCalls, streamerVars, validatorVars>>

SetExpectedTextCall ==
    /\ \E text \in Texts :
         /\ cv' = SetExpectedText(cv, text)
         /\ installed' = <<text>>
    /\ armed' = TRUE
    /\ UNCHANGED <<chunkedVars, pageVars, lastV, rejected, streamerVars, bufferVars>>

ValidatorResetCall ==
    /\ cv' = ValidatorReset(cv)
    /\ armed' = FALSE
    /\ installed' = <<>>
    /\ UNCHANGED <<chunkedVars, pageVars, lastV, rejected, streamerVars, bufferVars>>

ValidateChunkCall ==
    /\ UNCHANGED <<cv, armed, installed, rejected>>
    /\ \E incomingText \in Texts :
         lastV' = [ op          |-> "validate",
                    text        |-> incomingText,
                    isValid     |-> ValidateChunk(cv, incomingText).isValid,
                    validBefore |-> lastV.text = incomingText /\ lastV.isValid ]
    /\ UNCHANGED <<chunkedVars, pageVars, streamerVars, bufferVars>>

\* applyValidation(result), with an accepting or a rejecting result
ApplyValidationCall ==
    /\ \E isValid \in BOOLEAN :
         LET result == [isValid |-> isValid, newPosition |-> 0]
         IN  /\ cv' = ApplyValidation(cv, result)
             /\ lastV' = [ op          |-> "applyValidation",
                           text        |-> <<>>,
                           isValid     |-> result.isValid,
                           validBefore |-> FALSE ]
    /\ UNCHANGED <<chunkedVars, pageVars, armed, installed, rejected, streamerVars, bufferVars>>

GetStateCall ==
    /\ lastV' = [ op          |-> "getState",
                  text        |-> GetState(cv).expectedText,
                  isValid     |-> GetState(cv).isActive,
                  validBefore |-> FALSE ]
    /\ UNCHANGED <<chunkedVars, pageVars, cv, armed, installed, rejected, streamerVars, bufferVars>>

IsActiveCall ==
    /\ lastV' = [ op          |-> "isActive",
                  text        |-> <<>>,
                  isValid     |-> IsActive(cv),
                  validBefore |-> FALSE ]
    /\ UNCHANGED <<chunkedVars, pageVars, cv, armed, installed, rejected, streamerVars, bufferVars>>

GetExpectedTextCall ==
    /\ lastV' = [ op          |-> "getExpectedText",
                  text        |-> GetExpectedText(cv),
                  isValid     |-> FALSE,
                  validBefore |-> FALSE ]
    /\ UNCHANGED <<chunkedVars, pageVars, cv, armed, installed, rejected, streamerVars, bufferVars>>

\* ------------------------------------------------- the interruption page

\* the transcripts of the TTS lines and the texts of the batches: a sentence,
\* another sentence, the first with white space around it, and no text at all
FlowTexts == {<<"h">>, <<"H">>, <<" ", "h">>, <<>>}

\* the body of "if (data.audio && audioStreamerRef.current)" without the test
\* of the verdict: every line is played
ProcessLine_Ungated(v, s, text, p) == Enqueue(s, p, TRUE)

\* the body of "if (data.audio && audioStreamerRef.current)" in sendChunkToTTS
\* and sendSingleTextToTTS: the streamer after the line with transcript text
\* and audio p has been processed under the validator v
ProcessLine(v, s, text, p) ==
    IF ValidateChunk(v, text).isValid THEN Enqueue(s, p, TRUE) ELSE s

\* a line of a TTS response stream, of the current request or of an earlier
\* one still in flight, is read and processed
LineArrives ==
    /\ nCalls < MaxLines
    /\ \E text \in FlowTexts, kind \in {"ok", "corrupt"} :
         LET p == [id |-> nCalls + 1, kind |-> kind, duration |-> 4]
             validation == ValidateChunk(cv, text)
         IN  /\ w' = ProcessLine(cv, w, text, p)
             /\ last' = [Seen("line") EXCEPT !.kind = kind]
             /\ lastV' = [ op          |-> "validate",
                           text        |-> text,
                           isValid     |-> validation.isValid,
                           validBefore |-> lastV.text = text /\ lastV.isValid ]
             /\ rejected' = IF validation.isValid THEN rejected
                            ELSE rejected \cup {p.id}
    /\ nCalls' = nCalls + 1
    /\ UNCHANGED <<chunkedVars, pageVars, cv, armed, installed, bufferVars>>

\* generateSpeech up to its loop: the session and the validator are reset
GenerateSpeech ==
    /\ w' = ResetSession(w)
    /\ cv' = ValidatorReset(cv)
    /\ armed' = FALSE
    /\ installed' = <<>>
    /\ last' = Seen("resetSession")
    /\ UNCHANGED <<chunkedVars, pageVars, nCalls, lastV, rejected, bufferVars>>

\* the watermark of the next text batch (generateSpeech) or of the system
\* response (the timer of stopAudio) is installed before its request is sent
BatchStarts ==
    /\ \E text \in FlowTexts :
         /\ cv' = SetExpectedText(cv, text)
         /\ installed' = <<text>>
    /\ armed' = TRUE
    /\ UNCHANGED <<chunkedVars, pageVars, lastV, rejected, streamerVars, bufferVars>>

StopGeneration ==
    /\ cv' = ValidatorReset(cv)
    /\ armed' = FALSE
    /\ installed' = <<>>
    /\ UNCHANGED <<chunkedVars, pageVars, lastV, rejected, streamerVars, bufferVars>>

\* stopAudio up to its timer: playback is stopped and the validator reset
StopAudio ==
    /\ w' = Stop(w)
    /\ cv' = ValidatorReset(cv)
    /\ armed' = FALSE
    /\ installed' = <<>>
    /\ last' = Seen("stop")
    /\ UNCHANGED <<chunkedVars, pageVars, nCalls, lastV, rejected, bufferVars>>

\* ---------------------------------- the interruption page's control flow

\* the texts the user generates speech for, as splitTextIntoChunks cut them
\* (every chunk trimmed and non-empty): one of two chunks, one of one chunk
PageScripts == { << <<"h">>, <<"H">> >>, << <<"H">> >> }

\* "No problem. I'll wait until you're ready."
systemResponseText == <<"!">>

\* the page as mounted: nothing generating, no activity begun.  An activity
\* is a run of generateSpeech or an interruption by stopAudio, named by its
\* place in acts; chunks are its text batches, i the batch it is at, pc its
\* await ("tts": the response stream of batch i is being read, "delay": the
\* pause between two batches, "timer": the 500 ms before the system
\* response, "done"), interrupted whether stopAudio / stopGeneration ran
\* while it was not done.  lineOf is the activity whose line was read last.
NewPage ==
    [ isGenerating    |-> FALSE,
      isGeneratingRef |-> FALSE,
      acts            |-> <<>>,
      lineOf          |-> 0 ]

\* the text batch the activity a is at
BatchOf(a) == a.chunks[a.i]

\* the flags as stopGeneration, stopAudio and the finally block of
\* generateSpeech leave them
FlagsDown(pg) == [pg EXCEPT !.isGenerating = FALSE, !.isGeneratingRef = FALSE]

\* stopGeneration / stopAudio seen from the activities: those not done yet
\* have been interrupted
Interrupt(pg) ==
    [FlagsDown(pg) EXCEPT !.acts =
        [k \in DOMAIN pg.acts |->
            IF pg.acts[k].pc # "done"
            THEN [pg.acts[k] EXCEPT !.interrupted = TRUE]
            ELSE pg.acts[k]]]

\* generateSpeech from the click to its first await: the flags are raised,
\* the session and the validator reset, the watermark of the first batch
\* installed and its request sent
GenerateClick ==
    /\ ~page.isGenerating
    /\ Len(page.acts) < MaxActivities
    /\ \E chunks \in PageScripts :
         /\ page' = [page EXCEPT
                !.isGenerating = TRUE,
                !.isGeneratingRef = TRUE,
                !.acts = Append(@, [kind |-> "generation", chunks |-> chunks,
                                    i |-> 1, pc |-> "tts",
                                    interrupted |-> FALSE])]
         /\ cv' = SetExpectedText(ValidatorReset(cv), chunks[1])
         /\ installed' = <<chunks[1]>>
    /\ w' = ResetSession(w)
    /\ armed' = TRUE
    /\ last' = Seen("resetSession")
    /\ UNCHANGED <<chunkedVars, nCalls, lastV, rejected, bufferVars>>

\* a line of the response stream of activity k, carrying the text of its
\* request and audio, is read and processed; nothing aborts the reading of
\* a stream whose activity was interrupted
PageLine ==
    /\ nCalls < MaxLines
    /\ \E k \in DOMAIN page.acts :
         /\ page.acts[k].pc = "tts"
         /\ LET text == Trim(BatchOf(page.acts[k]))
                p == [id |-> nCalls + 1, kind |-> "ok", duration |-> 4]
                validation == ValidateChunk(cv, text)
            IN  /\ w' = ProcessLine(cv, w, text, p)
                /\ last' = [Seen("line") EXCEPT !.kind = "ok"]
                /\ lastV' = [ op          |-> "validate",
                              text        |-> text,
                              isValid     |-> validation.isValid,
                              validBefore |-> lastV.text = text /\ lastV.isValid ]
                /\ rejected' = IF validation.isValid THEN rejected
                               ELSE rejected \cup {p.id}
         /\ page' = [page EXCEPT !.lineOf = k]
    /\ nCalls' = nCalls + 1
    /\ UNCHANGED <<chunkedVars, cv, armed, installed, bufferVars>>

\* the response stream of the batch a generation is at ends and
\* sendChunkToTTS returns: with a batch left and the flag up the loop starts
\* its pause, otherwise it leaves (by the end of the for or by its break)
\* through the finally block
BatchDone ==
    /\ \E k \in DOMAIN page.acts :
         LET a == page.acts[k]
         IN  /\ a.kind = "generation"
             /\ a.pc = "tts"
             /\ page' =
                  IF a.i < Len(a.chunks) /\ page.isGeneratingRef
                  THEN [page EXCEPT !.acts[k].pc = "delay"]
                  ELSE [FlagsDown(page) EXCEPT !.acts[k].pc = "done"]
    /\ UNCHANGED <<chunkedVars, streamerVars, bufferVars, validatorVars>>

\* the timer of the pause between two batches fires: with the flag up the
\* promise resolves and the next turn of the loop installs the watermark of
\* the next batch and sends its request; otherwise the promise rejects and
\* the loop leaves through catch and finally
DelayFires ==
    /\ \E k \in DOMAIN page.acts :
         LET a == page.acts[k]
         IN  /\ a.pc = "delay"
             /\ IF page.isGeneratingRef
                THEN /\ page' = [page EXCEPT !.acts[k].i = a.i + 1,
                                             !.acts[k].pc = "tts"]
                     /\ cv' = SetExpectedText(cv, a.chunks[a.i + 1])
                     /\ installed' = <<a.chunks[a.i + 1]>>
                     /\ armed' = TRUE
                ELSE /\ page' = [FlagsDown(page) EXCEPT !.acts[k].pc = "done"]
                     /\ UNCHANGED <<chunkedVars, cv, installed, armed>>
    /\ UNCHANGED <<chunkedVars, lastV, rejected, streamerVars, bufferVars>>

\* stopGeneration, from the button shown while isGenerating
StopGenerationClick ==
    /\ page.isGenerating
    /\ page' = Interrupt(page)
    /\ cv' = ValidatorReset(cv)
    /\ armed' = FALSE
    /\ installed' = <<>>
    /\ UNCHANGED <<chunkedVars, lastV, rejected, streamerVars, bufferVars>>

\* stopAudio, from the button enabled while audio plays or is queued, up to
\* the start of its timer
StopAudioClick ==
    /\ w.isPlaying \/ Len(w.bufferQueue) # 0
    /\ Len(page.acts) < MaxActivities
    /\ page' = [Interrupt(page) EXCEPT
            !.acts = Append(@, [kind |-> "interruption",
                                chunks |-> <<systemResponseText>>,
                                i |-> 1, pc |-> "timer",
                                interrupted |-> FALSE])]
    /\ w' = Stop(w)
    /\ cv' = ValidatorReset(cv)
    /\ armed' = FALSE
    /\ installed' = <<>>
    /\ last' = Seen("stop")
    /\ UNCHANGED <<chunkedVars, nCalls, lastV, rejected, bufferVars>>

\* the timer of stopAudio fires: the watermark of the system response is
\* installed and its request sent
SystemResponseTimer ==
    /\ \E k \in DOMAIN page.acts :
         /\ page.acts[k].pc = "timer"
         /\ page' = [page EXCEPT !.acts[k].pc = "tts"]
    /\ cv' = SetExpectedText(cv, systemResponseText)
    /\ installed' = <<systemResponseText>>
    /\ armed' = TRUE
    /\ UNCHANGED <<chunkedVars, lastV, rejected, streamerVars, bufferVars>>

\* the response stream of a system response ends
SystemResponseDone ==
    /\ \E k \in DOMAIN page.acts :
         /\ page.acts[k].kind = "interruption"
         /\ page.acts[k].pc = "tts"
         /\ page' = [page EXCEPT !.acts[k].pc = "done"]
    /\ UNCHANGED <<chunkedVars, streamerVars, bufferVars, validatorVars>>

\* ------------------------------------------ the chunked page's control flow

\* the indices of the text chunks of the example
ChunkIndices == 0..(NumChunks - 1)

\* the page as mounted.  chunkTimeoutRef holds the handle of the pause timer
\* set last, as a sequence of at most one [run, i]; runs are the runs of the
\* start handlers, in the order they were started
NewChunkedPage ==
    [ isGenerating    |-> FALSE,
      isGeneratingRef |-> FALSE,
      chunkTimeoutRef |-> <<>>,
      runs            |-> <<>> ]

\* a run as its start handler leaves it at its first await.
\*   pc   : "tts" / "delay" the sequential loop awaits sendChunkToTTS / its
\*          pause, "hung" its pause timer was cleared, "arrivals" the run
\*          awaits Promise.all(chunkPromises), "poll" the buffered run
\*          awaits a turn of its closing while loop, "done"
\*   i, shouldContinue : the locals of startChunkedGeneration
\*   toArrive   : the simulated LLM chunks whose arrival timer is pending
\*   textChunks : the indices stored in textChunks (buffered)
\*   activeTTSRequest, nextTTSIndex : the locals of startBufferedGeneration
\*   timers     : pending setTimeout(() => processNextTTS(), 100)
\*   inflight   : the indices whose TTS request has not settled
\*   sent       : the indices sent to the TTS endpoint, in order
\*   failed     : the indices whose request settled with an error
\*   stopped    : stopGeneration ran while the run was not done
NewRun(mode) ==
    [ mode             |-> mode,
      pc               |-> IF mode = "sequential" THEN "tts" ELSE "arrivals",
      i                |-> 0,
      shouldContinue   |-> TRUE,
      toArrive         |-> IF mode = "sequential" THEN {} ELSE ChunkIndices,
      textChunks       |-> {},
      activeTTSRequest |-> FALSE,
      nextTTSIndex     |-> 0,
      timers           |-> 0,
      inflight         |-> IF mode = "sequential" THEN {0} ELSE {},
      sent             |-> IF mode = "sequential" THEN <<0>> ELSE <<>>,
      failed           |-> {},
      stopped          |-> FALSE ]

\* sendChunkToTTS(chunks[k], k) up to its await fetch
Send(run, k) ==
    [run EXCEPT !.inflight = @ \cup {k}, !.sent = Append(@, k)]

\* a request settles: its response stream ended, or it failed
Settled(run, k, ok) ==
    [run EXCEPT !.inflight = @ \ {k},
                !.failed = IF ok THEN @ ELSE @ \cup {k}]

\* the finally block of the start handler of run r (startChunkedGeneration
\* lowers its local shouldContinue, the two others the shared ref)
Finally(c, r) ==
    [c EXCEPT !.isGenerating = FALSE,
              !.isGeneratingRef =
                  IF c.runs[r].mode = "sequential" THEN @ ELSE FALSE,
              !.runs[r].shouldContinue = FALSE,
              !.runs[r].pc = "done"]

\* the finally block of processNextTTS without its setTimeout
RequestFinally_NoTimer(run) ==
    [run EXCEPT !.activeTTSRequest = FALSE,
                !.nextTTSIndex = @ + 1]

\* the finally block of processNextTTS: the slot is freed, nextTTSIndex
\* advanced and processNextTTS called again 100 ms later
RequestFinally(run) ==
    [run EXCEPT !.activeTTSRequest = FALSE,
                !.nextTTSIndex = @ + 1,
                !.timers = @ + 1]

\* processNextTTS without the test of activeTTSRequest
ProcessNextTTS_NoSlot(run, ref) ==
    IF ~ref THEN run
    ELSE IF run.nextTTSIndex >= NumChunks
              \/ run.nextTTSIndex \notin run.textChunks THEN run
    ELSE [Send(run, run.nextTTSIndex) EXCEPT !.activeTTSRequest = TRUE]

\* processNextTTS of a buffered run, the shared ref being ref
ProcessNextTTS(run, ref) ==
    IF run.activeTTSRequest \/ ~ref THEN run
    ELSE IF run.nextTTSIndex >= NumChunks
              \/ run.nextTTSIndex \notin run.textChunks THEN run
    ELSE [Send(run, run.nextTTSIndex) EXCEPT !.activeTTSRequest = TRUE]

\* the head of the closing while loop of startBufferedGeneration: another
\* 100 ms turn, or on to the finally block
WhileTurn(c, r) ==
    LET run == c.runs[r]
    IN  IF (run.nextTTSIndex < NumChunks \/ run.activeTTSRequest)
              /\ c.isGeneratingRef
        THEN [c EXCEPT !.runs[r].pc = "poll"]
        ELSE Finally(c, r)

\* what follows in run r once a chunk promise has resolved: when all have,
\* Promise.all resolves and the handler goes on
AfterChunkPromise(c, r) ==
    LET run == c.runs[r]
    IN  IF run.pc # "arrivals" \/ run.toArrive # {} THEN c
        ELSE IF run.mode = "buffered" THEN WhileTurn(c, r)
        ELSE IF run.inflight = {} THEN Finally(c, r)
        ELSE c

\* the start handlers' common beginning, from the click to the first await
Started(c, mode) ==
    [c EXCEPT !.isGenerating = TRUE,
              !.isGeneratingRef = IF mode = "sequential" THEN @ ELSE TRUE,
              !.runs = Append(@, NewRun(mode))]

\* stopGeneration seen from the page: the flags are lowered, the pause timer
\* whose handle chunkTimeoutRef holds is cleared (its promise never settles)
StoppedGeneration(c) ==
    LET cleared == {r \in DOMAIN c.runs :
                       /\ c.chunkTimeoutRef # <<>>
                       /\ c.chunkTimeoutRef[1].run = r
                       /\ c.chunkTimeoutRef[1].i = c.runs[r].i
                       /\ c.runs[r].pc = "delay"}
    IN  [c EXCEPT !.isGenerating = FALSE,
                  !.isGeneratingRef = FALSE,
                  !.chunkTimeoutRef = <<>>,
                  !.runs = [r \in DOMAIN c.runs |->
                      [c.runs[r] EXCEPT
                          !.pc = IF r \in cleared THEN "hung" ELSE @,
                          !.stopped = @ \/ c.runs[r].pc # "done"]]]

StartChunkedGeneration ==
    /\ ~chunked.isGenerating
    /\ Len(chunked.runs) < MaxRuns
    /\ chunked' = Started(chunked, "sequential")
    /\ w' = ResetSession(w)
    /\ last' = Seen("resetSession")
    /\ UNCHANGED <<nCalls, bufferVars, validatorVars, pageVars>>

StartConcurrentGeneration ==
    /\ ~chunked.isGenerating
    /\ Len(chunked.runs) < MaxRuns
    /\ chunked' = Started(chunked, "concurrent")
    /\ w' = ResetSession(w)
    /\ last' = Seen("resetSession")
    /\ UNCHANGED <<nCalls, bufferVars, validatorVars, pageVars>>

StartBufferedGeneration ==
    /\ ~chunked.isGenerating
    /\ Len(chunked.runs) < MaxRuns
    /\ chunked' = Started(chunked, "buffered")
    /\ w' = ResetSession(w)
    /\ last' = Seen("resetSession")
    /\ b' = BufferReset(b)
    /\ lastB' = SeenB("reset", 0, FALSE)
    /\ added' = NoneAdded
    /\ UNCHANGED <<nCalls, nBufCalls, toDeliver, completeLast, validatorVars,
                   pageVars>>

\* the request of the sequential loop settles; a failure is caught and the
\* loop goes on: to its pause when a chunk is left, else out of the loop
SequentialRequestSettles ==
    /\ \E r \in DOMAIN chunked.runs, ok \in BOOLEAN :
         LET run == chunked.runs[r]
             c1 == [chunked EXCEPT !.runs[r] = Settled(run, run.i, ok)]
         IN  /\ run.mode = "sequential"
             /\ run.pc = "tts"
             /\ chunked' =
                  IF run.i < NumChunks - 1 /\ run.shouldContinue
                  THEN [c1 EXCEPT !.runs[r].pc = "delay",
                                  !.chunkTimeoutRef = <<[run |-> r, i |-> run.i]>>]
                  ELSE Finally(c1, r)
    /\ UNCHANGED <<streamerVars, bufferVars, validatorVars, pageVars>>

\* the pause timer of the sequential loop fires: with shouldContinue the
\* promise resolves and the next turn sends the next chunk, otherwise it
\* rejects and the handler leaves through catch and finally
SequentialDelayElapsed ==
    /\ \E r \in DOMAIN chunked.runs :
         LET run == chunked.runs[r]
         IN  /\ run.pc = "delay"
             /\ chunked' =
                  IF run.shouldContinue
                  THEN [chunked EXCEPT !.runs[r] =
                           [Send(run, run.i + 1) EXCEPT !.i = run.i + 1,
                                                        !.pc = "tts"]]
                  ELSE Finally(chunked, r)
    /\ UNCHANGED <<streamerVars, bufferVars, validatorVars, pageVars>>

\* the arrival timer of a simulated LLM chunk fires (that of chunk 0, set
\* with delay 0, before the others; these in any order): with the ref down
\* the chunk is cancelled; otherwise a concurrent run sends it at once and
\* a buffered run stores it and calls processNextTTS
ChunkArrives ==
    /\ \E r \in DOMAIN chunked.runs :
         \E k \in chunked.runs[r].toArrive :
           LET run == [chunked.runs[r] EXCEPT !.toArrive = @ \ {k}]
               run1 == IF ~chunked.isGeneratingRef THEN run
                       ELSE IF run.mode = "concurrent" THEN Send(run, k)
                       ELSE ProcessNextTTS(
                                [run EXCEPT !.textChunks = @ \cup {k}],
                                chunked.isGeneratingRef)
           IN  /\ k = 0 \/ 0 \notin chunked.runs[r].toArrive
               /\ chunked' = AfterChunkPromise([chunked EXCEPT !.runs[r] = run1], r)
    /\ UNCHANGED <<streamerVars, bufferVars, validatorVars, pageVars>>

\* a request of a concurrent run settles and its chunk promise resolves
ConcurrentRequestSettles ==
    /\ \E r \in DOMAIN chunked.runs, ok \in BOOLEAN :
         \E k \in chunked.runs[r].inflight :
           /\ chunked.runs[r].mode = "concurrent"
           /\ chunked' = AfterChunkPromise(
                  [chunked EXCEPT !.runs[r] = Settled(@, k, ok)], r)
    /\ UNCHANGED <<streamerVars, bufferVars, validatorVars, pageVars>>

\* the request of a buffered run settles: the finally block of
\* processNextTTS frees the slot, advances nextTTSIndex and sets its timer
BufferedRequestSettles ==
    /\ \E r \in DOMAIN chunked.runs, ok \in BOOLEAN :
         \E k \in chunked.runs[r].inflight :
           /\ chunked.runs[r].mode = "buffered"
           /\ chunked' = [chunked EXCEPT !.runs[r] =
                  RequestFinally(Settled(@, k, ok))]
    /\ UNCHANGED <<streamerVars, bufferVars, validatorVars, pageVars>>

\* a timer set by the finally block of processNextTTS fires
NextTTSTimer ==
    /\ \E r \in DOMAIN chunked.runs :
         /\ chunked.runs[r].timers > 0
         /\ chunked' = [chunked EXCEPT !.runs[r] =
                ProcessNextTTS([@ EXCEPT !.timers = @ - 1],
                               chunked.isGeneratingRef)]
    /\ UNCHANGED <<streamerVars, bufferVars, validatorVars, pageVars>>

\* a 100 ms turn of the closing while loop of a buffered run is over
PollTimer ==
    /\ \E r \in DOMAIN chunked.runs :
         /\ chunked.runs[r].pc = "poll"
         /\ chunked' = WhileTurn(chunked, r)
    /\ UNCHANGED <<streamerVars, bufferVars, validatorVars, pageVars>>

\* stopGeneration of the chunked page, from the button enabled while
\* isGenerating
ChunkedStopGeneration ==
    /\ chunked.isGenerating
    /\ chunked' = StoppedGeneration(chunked)
    /\ b' = BufferReset(b)
    /\ lastB' = SeenB("reset", 0, FALSE)
    /\ added' = NoneAdded
    /\ UNCHANGED <<nBufCalls, toDeliver, completeLast, streamerVars,
                   validatorVars, pageVars>>

\* the three objects as constructed, the AudioContext in state ctxState
Constructed(ctxState) ==
    /\ w = NewStreamer(ctxState)
    /\ last = [op |-> "new", sources |-> {}, queued |-> 0, cursor |-> 0,
               playing |-> FALSE, kind |-> "none", again |-> FALSE,
               volume |-> 0]
    /\ nCalls = 0
    /\ b = MountedBuffer
    /\ lastB = [op |-> "new", chunkIndex |-> 0, isComplete |-> FALSE,
                wasProcessed |-> FALSE, waiting |-> <<>>, released |-> 0,
                wasComplete |-> FALSE, inner |-> <<>>]
    /\ nBufCalls = 0
    /\ toDeliver = Generation
    /\ completeLast = TRUE
    /\ added = NoneAdded
    /\ cv = NewValidator
    /\ armed = FALSE
    /\ installed = <<>>
    /\ lastV = [op |-> "none", text |-> <<>>, isValid |-> FALSE, validBefore |-> FALSE]
    /\ rejected = {}
    /\ page = NewPage
    /\ chunked = NewChunkedPage

\* a context created before a user gesture starts suspended, otherwise running
Init == \E ctxState \in {"suspended", "running"} : Constructed(ctxState)

NextStreamer ==
    \/ EnqueueCall
    \/ ResumeResolved
    \/ SourceEnded
    \/ StoppedSourceEnded
    \/ StopCall
    \/ ResetSessionCall
    \/ Tick

\* the scheduler as the repository drives it (PCM payloads)
SpecStreamer == Init /\ [][NextStreamer]_vars

NextDecode ==
    \/ EnqueueCall
    \/ EnqueueMP3Call
    \/ DecodeDone
    \/ ResumeResolved
    \/ StopCall

\* the scheduler with the asynchronously decoded path as well: calls on both
\* paths interleaved with the settling of the decodes (source completion is
\* covered by SpecStreamer)
SpecDecode == Init /\ [][NextDecode]_vars

NextVolume ==
    \/ EnqueueCall
    \/ SetVolumeCall
    \/ ResumeResolved
    \/ SourceEnded

\* the scheduler with its volume control
SpecVolume == Init /\ [][NextVolume]_vars

NextBacklog ==
    \/ BacklogEnqueueCall
    \/ ResumeResolved
    \/ ResetSessionCall

\* the scheduler fed faster than it can start playing (the context suspended)
SpecBacklog == Init /\ [][NextBacklog]_vars

NextCounters ==
    \/ BacklogEnqueueCall
    \/ BacklogStopCall
    \/ ResumeResolved
    \/ ResetSessionCall

\* the scheduler fed faster than it can start playing and stopped at any
\* moment: every way a buffer leaves the queue
SpecCounters == Init /\ [][NextCounters]_vars

NextBuffer ==
    \/ AddAudioChunkCall
    \/ BufferResetCall

\* the sequence buffer under arbitrary calls
SpecBuffer == Constructed("suspended") /\ [][NextBuffer]_vars

NextReentrant ==
    \/ AddAudioChunkCall
    \/ ReentrantAddCall

\* the sequence buffer with a callback that re-enters it
SpecReentrant == Constructed("suspended") /\ [][NextReentrant]_vars

\* the sequence buffer receiving one generation, each segment once
SpecGeneration == Constructed("suspended") /\ [][SegmentArrives]_vars

NextValidator ==
    \/ SetExpectedTextCall
    \/ ValidatorResetCall
    \/ ValidateChunkCall

SpecValidator == Constructed("suspended") /\ [][NextValidator]_vars

NextValidatorReads ==
    \/ SetExpectedTextCall
    \/ ValidatorResetCall
    \/ ValidateChunkCall
    \/ ApplyValidationCall
    \/ GetStateCall
    \/ IsActiveCall
    \/ GetExpectedTextCall

\* the validator under every method of its interface
SpecValidatorReads == Constructed("suspended") /\ [][NextValidatorReads]_vars

NextInterruption ==
    \/ LineArrives
    \/ GenerateSpeech
    \/ BatchStarts
    \/ StopGeneration
    \/ StopAudio
    \/ ResumeResolved
    \/ SourceEnded

\* the interruption page: the validator in front of the scheduler
SpecInterruption == Init /\ [][NextInterruption]_vars

NextPage ==
    \/ GenerateClick
    \/ PageLine
    \/ BatchDone
    \/ DelayFires
    \/ StopGenerationClick
    \/ StopAudioClick
    \/ SystemResponseTimer
    \/ SystemResponseDone

\* the interruption page with the control flow of its handlers, the user
\* having clicked before (the AudioContext runs)
SpecPage == Constructed("running") /\ [][NextPage]_vars

NextChunked ==
    \/ StartChunkedGeneration
    \/ StartConcurrentGeneration
    \/ StartBufferedGeneration
    \/ SequentialRequestSettles
    \/ SequentialDelayElapsed
    \/ ChunkArrives
    \/ ConcurrentRequestSettles
    \/ BufferedRequestSettles
    \/ NextTTSTimer
    \/ PollTimer
    \/ ChunkedStopGeneration

\* the chunked page with its three modes (the audio lines of the responses
\* go to the scheduler as in SpecStreamer and are left out here)
SpecChunked == Constructed("running") /\ [][NextChunked]_vars

NextBufferedMode ==
    \/ StartBufferedGeneration
    \/ ChunkArrives
    \/ BufferedRequestSettles
    \/ NextTTSTimer
    \/ PollTimer
    \/ ChunkedStopGeneration

NextBufferedRun ==
    \/ StartBufferedGeneration
    \/ ChunkArrives
    \/ BufferedRequestSettles
    \/ NextTTSTimer
    \/ PollTimer

\* buffered mode left to run, never stopped: every timer set fires and
\* every request sent settles
SpecBufferedRun ==
    /\ Constructed("running")
    /\ [][NextBufferedRun]_vars
    /\ WF_vars(ChunkArrives)
    /\ WF_vars(BufferedRequestSettles)
    /\ WF_vars(NextTTSTimer)
    /\ WF_vars(PollTimer)

\* the chunked page used in buffered mode only
SpecBufferedMode == Constructed("running") /\ [][NextBufferedMode]_vars

\* ------------------------------------------------- claims on the scheduler

\* C1: within one timeline (since the last stop() and the last re-base of the
\* cursor) every source starts exactly where the one before it ends:
\* start(n+1) = start(n) + duration(n).
C1_Gapless ==
    \A n \in 1..(Len(w.started) - 1) :
        w.started[n + 1].start = w.started[n].start + w.started[n].duration

\* Scenario A: three 0.5 s buffers enqueued back-to-back on a fresh streamer
\* are started at t0, t0 + 0.5 and t0 + 1.0, t0 the initial lookahead
C1_ScenarioA ==
    /\ Len(w.started) = 3
    /\ \A n \in 1..3 : w.started[n].duration = 10
    /\ w.currentTime = 0
    /\ w.started[1].start = BUFFER_AHEAD_TIME
    /\ w.started[2].start = BUFFER_AHEAD_TIME + 10
    /\ w.started[3].start = BUFFER_AHEAD_TIME + 20

\* C7: stop(), whatever state it is called in, leaves the scheduler Idle:
\* every source it found is terminated and forgotten, the queue is empty and
\* getStatus() reports isPlaying = false, queueSize = 0.
C7_StopLeavesIdle ==
    last.op = "stop" =>
        /\ w.scheduledSources = <<>>
        /\ w.bufferQueue = <<>>
        /\ last.sources \subseteq w.ended
        /\ GetStatus(w).isPlaying = FALSE
        /\ GetStatus(w).queueSize = 0

\* stop() has just run on a scheduler that had two active sources
C7_StopWithTwoSources ==
    /\ last.op = "stop"
    /\ Cardinality(last.sources) = 2
    /\ w.ended = last.sources

\* stop() has just run on a scheduler that held three unscheduled buffers
C7_StopWithThreeQueued ==
    /\ last.op = "stop"
    /\ last.queued = 3

\* C8: whenever an operation or callback has finished, isPlaying implies that
\* at least one source is scheduled or one buffer is queued.
C8_PlayingHasWork ==
    w.isPlaying => Len(w.scheduledSources) + Len(w.bufferQueue) > 0

\* C9: once nothing is pending any more (no resume to resolve, no scheduled
\* source, no completion event still to be dispatched) the scheduler is Idle:
\* isPlaying = false and the queue is empty.
C9_QuiescentIsIdle ==
    (w.resumePromises = 0 /\ w.scheduledSources = <<>> /\ w.ended = {})
        => (~w.isPlaying /\ w.bufferQueue = <<>>)

\* C10 as stated: no step ever lowers nextStartTime.
C10_CursorNeverLowered ==
    [][w'.nextStartTime >= w.nextStartTime]_vars

\* a step that is a call of stop() or resetSession()
StopStep == nCalls' = nCalls + 1 /\ last'.op \in {"stop", "resetSession"}

\* C10 as amended: a step other than stop()/resetSession() never lowers
\* nextStartTime; stop() and resetSession() re-base it to the clock plus the
\* lookahead, which is never behind the clock.
C10_CursorMonotoneBetweenStops ==
    [][IF StopStep
       THEN w'.nextStartTime = w'.currentTime + BUFFER_AHEAD_TIME
       ELSE w'.nextStartTime >= w.nextStartTime]_vars

\* an enqueue has just moved the cursor forward
C10_CursorAdvanced ==
    /\ last.op = "enqueue"
    /\ w.nextStartTime > last.cursor
    /\ Len(w.started) >= 2

\* a step that takes the scheduler from Idle to Playing and schedules a buffer
\* (an Idle scheduler has no scheduled source, so the first source after the
\* step is the first buffer of the new run)
StartsRun ==
    /\ ~w.isPlaying
    /\ w'.isPlaying
    /\ w.scheduledSources = <<>>
    /\ w'.scheduledSources # <<>>

\* C11 as stated: whenever the scheduler goes from Idle to Playing, the first
\* buffer of the new run starts at exactly the clock value at that moment plus
\* BUFFER_AHEAD_TIME.
C11_FirstStartIsClockPlusLookahead ==
    [][StartsRun =>
          w'.scheduledSources[1].start = w'.currentTime + BUFFER_AHEAD_TIME]_vars

\* C11 as amended: the first buffer of a new run starts at the clock plus
\* BUFFER_AHEAD_TIME when the cursor is at or behind the clock, and otherwise
\* at the cursor as the constructor or the last stop() left it, which is ahead
\* of the clock by no more than BUFFER_AHEAD_TIME.
C11_FirstStartWithinLookahead ==
    [][StartsRun =>
          LET first == w'.scheduledSources[1].start
              now   == w'.currentTime
          IN  /\ first = IF w.nextStartTime <= now
                         THEN now + BUFFER_AHEAD_TIME
                         ELSE w.nextStartTime
              /\ first > now
              /\ first <= now + BUFFER_AHEAD_TIME]_vars

\* an enqueue has just started a run while the cursor was still ahead of the
\* clock: its buffer starts at the cursor, less than BUFFER_AHEAD_TIME ahead
C11_StartedInsideLookahead ==
    /\ last.op = "enqueue"
    /\ ~last.playing
    /\ w.isPlaying
    /\ Len(w.scheduledSources) = 1
    /\ last.cursor > w.currentTime
    /\ w.scheduledSources[1].start = last.cursor
    /\ w.scheduledSources[1].start < w.currentTime + BUFFER_AHEAD_TIME

\* an enqueue call that decoded its payload and found the queue at capacity
OverflowStep ==
    /\ nCalls' = nCalls + 1
    /\ last'.op = "enqueue"
    /\ w'.totalChunksReceived = w.totalChunksReceived + 1
    /\ Len(w.bufferQueue) >= MAX_BUFFER_SIZE

\* C12: the unscheduled queue never holds more than MAX_BUFFER_SIZE buffers,
\* and an enqueue that finds it at capacity removes exactly its oldest buffer
\* and appends the new one, the others keeping their order.
C12_BoundedDropOldest ==
    /\ [](Len(w.bufferQueue) <= MAX_BUFFER_SIZE)
    /\ [][OverflowStep =>
             /\ Len(w'.bufferQueue) = MAX_BUFFER_SIZE
             /\ SubSeq(w'.bufferQueue, 1, MAX_BUFFER_SIZE - 1) = Tail(w.bufferQueue)
             /\ w'.bufferQueue[MAX_BUFFER_SIZE].id = nCalls']_vars

\* Scenario E: the 11th buffer was enqueued on a queue holding the first ten;
\* the queue now holds the buffers 2 to 11
C12_ScenarioE ==
    /\ last.op = "enqueue"
    /\ last.queued = MAX_BUFFER_SIZE
    /\ [i \in 1..Len(w.bufferQueue) |-> w.bufferQueue[i].id]
           = [i \in 1..MAX_BUFFER_SIZE |-> i + 1]

\* C13: every enqueue that drops the oldest buffer raises the drop counter of
\* getStatus().analytics by exactly one; resetSession() apart, no other step
\* changes it.
C13_DropsCounted ==
    [][IF OverflowStep
       THEN GetStatus(w').bufferOverflows = GetStatus(w).bufferOverflows + 1
       ELSE last'.op # "resetSession" =>
                GetStatus(w').bufferOverflows = GetStatus(w).bufferOverflows]_vars

\* C14: the buffers scheduled in one playing run are scheduled in the order of
\* their enqueue calls (the ids count the calls), each starting after the one
\* enqueued before it, on the PCM path and on the decoded path alike.
C14_ArrivalOrder ==
    \A i, j \in 1..Len(w.started) :
        i < j => /\ w.started[i].id < w.started[j].id
                 /\ w.started[i].start < w.started[j].start

\* what scheduling depends on and what the listeners of the scheduler see
SchedulingState(s) ==
    [ nextStartTime       |-> s.nextStartTime,
      bufferQueue         |-> s.bufferQueue,
      scheduledSources    |-> s.scheduledSources,
      isPlaying           |-> s.isPlaying,
      totalChunksReceived |-> s.totalChunksReceived,
      totalChunksPlayed   |-> s.totalChunksPlayed,
      resumePromises      |-> s.resumePromises,
      started             |-> s.started ]

\* a step in which a payload fails to decode: a PCM enqueue call whose
\* conversion throws, or the rejection of a pending decodeAudioData
DecodeFailureStep ==
    /\ last'.kind = "corrupt"
    /\ \/ last'.op = "enqueue" /\ nCalls' = nCalls + 1
       \/ last'.op = "decoded" /\ w'.decoding # w.decoding

\* C15: a payload that fails to decode leaves nextStartTime, the queue, the
\* scheduled sources, isPlaying and the counters as they were, and the next
\* buffer enqueued is scheduled as it would have been without the failed call.
C15_DecodeFailureIsolated ==
    [][DecodeFailureStep =>
          /\ SchedulingState(w') = SchedulingState(w)
          /\ \A d \in Durations :
                 LET q == [id |-> nCalls' + 1, kind |-> "ok", duration |-> d]
                 IN  SchedulingState(Enqueue(w', q, TRUE))
                         = SchedulingState(Enqueue(w, q, TRUE))]_vars

\* a payload that failed to decode came between two buffers: they play back
\* to back and only they are counted
C15_FailedBetweenTwo ==
    /\ w.audioDataChunks = <<1, 2, 3>>
    /\ w.decoding = {}
    /\ w.totalChunksReceived = 2
    /\ Len(w.started) = 2
    /\ w.started[1].id = 1
    /\ w.started[2].id = 3
    /\ w.started[2].start = w.started[1].start + w.started[1].duration

\* a stop() call made right after a stop() call, the clock not having moved
\* (the earlier call left the cursor at its clock value plus the lookahead)
SecondStopStep ==
    /\ nCalls' = nCalls + 1
    /\ last'.op = "stop"
    /\ last.op = "stop"
    /\ w.nextStartTime = w.currentTime + BUFFER_AHEAD_TIME

\* C17: stop() called twice in succession leaves the scheduler as one call
\* does (Idle, no source, empty queue, the same cursor), in every state it
\* can be called in, an Idle one included.
C17_StopIdempotent ==
    /\ [](Stop(Stop(w)) = Stop(w))
    /\ [][SecondStopStep => w' = w]_vars

\* stop() has just run a second time in succession on a scheduler whose first
\* stop() had terminated a source: nothing has changed
C17_StoppedTwice ==
    /\ last.op = "stop"
    /\ last.again
    /\ ~last.playing
    /\ last.sources = {}
    /\ last.cursor = w.nextStartTime
    /\ w.ended # {}
    /\ GetStatus(w).isPlaying = FALSE
    /\ GetStatus(w).queueSize = 0

\* a call of resetSession()
ResetSessionStep == nCalls' = nCalls + 1 /\ last'.op = "resetSession"

\* C21: when resetSession() returns, whatever the state it was called in, the
\* scheduler is Idle with no scheduled source and an empty queue, both
\* counters are 0, no raw audio chunk is stored and the cursor is the clock
\* plus BUFFER_AHEAD_TIME.
C21_ResetSessionWipes ==
    [][ResetSessionStep =>
          /\ ~w'.isPlaying
          /\ w'.scheduledSources = <<>>
          /\ w'.bufferQueue = <<>>
          /\ w'.totalChunksReceived = 0
          /\ w'.totalChunksPlayed = 0
          /\ w'.audioDataChunks = <<>>
          /\ w'.nextStartTime = w'.currentTime + BUFFER_AHEAD_TIME
          /\ GetStatus(w').queueSize = 0
          /\ GetStatus(w').totalChunksReceived = 0
          /\ GetStatus(w').totalChunksPlayed = 0]_vars

\* resetSession() has just run on a scheduler that was playing two sources,
\* the cursor well ahead of the clock
C21_ResetWhilePlaying ==
    /\ last.op = "resetSession"
    /\ last.playing
    /\ Cardinality(last.sources) = 2
    /\ last.cursor > w.nextStartTime
    /\ w.ended = last.sources
    /\ w.totalChunksReceived = 0
    /\ w.totalChunksPlayed = 0
    /\ w.audioDataChunks = <<>>

\* C22: every step that changes isPlaying calls onPlaybackStateChange with the
\* new value, and the last value the listener was given is the current
\* isPlaying (before the first call the scheduler is still Idle, as built).
C22_ListenerInformed ==
    /\ [](IF w.listener = <<>> THEN ~w.isPlaying ELSE w.listener = <<w.isPlaying>>)
    /\ [][w'.isPlaying # w.isPlaying => w'.listener = <<w'.isPlaying>>]_vars

\* the last source of a run has just ended: the scheduler went from Playing
\* to Idle and the listener was told false
C22_CompletionReported ==
    /\ last.op = "ended"
    /\ last.playing
    /\ Cardinality(last.sources) = 1
    /\ ~w.isPlaying
    /\ w.listener = <<FALSE>>

\* a call of setVolume()
SetVolumeStep == nCalls' = nCalls + 1 /\ last'.op = "setVolume"

\* C24: setVolume(v) sets the gain to 0 for v below 0, to 1 for v above 1 and
\* to v otherwise, and leaves everything else of the scheduler as it was.
C24_VolumeClamped ==
    [][SetVolumeStep =>
          /\ w'.gain = IF last'.volume < 0 THEN 0
                       ELSE IF last'.volume > FullVolume THEN FullVolume
                       ELSE last'.volume
          /\ [w' EXCEPT !.gain = w.gain] = w]_vars

\* setVolume(1.5) has just run, after another setVolume call, on a scheduler
\* playing with a source scheduled: the gain is 1
C24_LoudClamped ==
    /\ last.op = "setVolume"
    /\ last.volume = 15
    /\ last.again
    /\ last.playing
    /\ w.gain = FullVolume
    /\ Len(w.scheduledSources) = 1
    /\ w.isPlaying

\* the ended event of a source that stop() terminated is handled
LateEndedStep ==
    /\ last'.op = "endedAfterStop"
    /\ w'.ended # w.ended

\* C35: the late ended event of a source terminated by stop() takes no
\* source scheduled since off the scheduled set, and leaves isPlaying as it
\* is while sources are scheduled or buffers wait unscheduled
C35_LateEndedHarmless ==
    [][LateEndedStep =>
         /\ w'.scheduledSources = w.scheduledSources
         /\ w'.bufferQueue = w.bufferQueue
         /\ (Len(w.scheduledSources) > 0 \/ Len(w.bufferQueue) > 0)
               => w'.isPlaying = w.isPlaying]_vars

\* the ended event of a stopped source has just been handled while a
\* source scheduled after the stop() was playing
C35_LateEndedDuringNextRun ==
    /\ last.op = "endedAfterStop"
    /\ last.sources # {}
    /\ last.playing
    /\ Len(w.scheduledSources) > 0
    /\ w.isPlaying

\* C36: if a source is scheduled then isPlaying is true, and if isPlaying is
\* true then no buffer waits unscheduled in the queue
\* (so sources and queued buffers never coexist), and buffers wait in the
\* queue only while the scheduler is idle with a resume() of the suspended
\* context pending
C36_ScheduledXorQueued ==
    /\ Len(w.scheduledSources) > 0 => w.isPlaying
    /\ w.isPlaying => Len(w.bufferQueue) = 0
    /\ Len(w.bufferQueue) > 0
          => /\ Len(w.scheduledSources) = 0
             /\ w.ctxState = "suspended"
             /\ w.resumePromises > 0

\* two buffers wait unscheduled for the context to resume
C36_QueueFillsWhileSuspended ==
    /\ last.op = "enqueue"
    /\ last.queued = 1
    /\ Len(w.bufferQueue) = 2
    /\ ~w.isPlaying

\* C37: the buffers played never outnumber the buffers received; since the
\* last resetSession() the buffers received that are neither counted as
\* played nor still in the queue are exactly those dropped by a full queue
\* plus those stop() threw away unscheduled; and stop() takes nothing off
\* totalChunksPlayed, which still counts the sources stop() cut short.
C37_CountersConserved ==
    /\ [](/\ w.totalChunksPlayed <= w.totalChunksReceived
          /\ w.totalChunksReceived - w.totalChunksPlayed - Len(w.bufferQueue)
                 = w.dropped + w.discarded
          /\ Len(w.scheduledSources) <= w.totalChunksPlayed)
    /\ [][last'.op = "stop"
             => w'.totalChunksPlayed = w.totalChunksPlayed]_vars

\* a full queue has dropped its oldest buffer and a stop() has then thrown
\* the queued buffers away
C37_DroppedAndDiscarded ==
    /\ w.dropped > 0
    /\ w.discarded > 0
    /\ last.op = "stop"
    /\ w.totalChunksReceived > w.totalChunksPlayed

\* ------------------------------------------- claims on the sequence buffer

\* C2: between two reset() calls no chunk index is emitted (onAudioReady
\* invoked for it) more than once.
C2_ReleasedAtMostOnce ==
    \A i, j \in 1..Len(b.released) :
        i # j => b.released[i].chunkIndex # b.released[j].chunkIndex

\* a segment has just been re-delivered for an index that was already emitted
C2_Redelivered ==
    /\ lastB.op = "add"
    /\ lastB.wasProcessed
    /\ lastB.chunkIndex \in {b.released[j].chunkIndex : j \in 1..Len(b.released)}

\* C3: the emitted indices are 0, 1, 2, ..., k in this order, with no gap, and
\* every emitted entry was marked complete when it was emitted.
C3_AscendingRelease ==
    \A j \in 1..Len(b.released) :
        /\ b.released[j].chunkIndex = j - 1
        /\ b.released[j].isComplete

\* Scenario B: a complete segment for index 1 was waiting alone when the
\* complete segment for index 0 arrived; 0 was emitted first, then 1
C3_ScenarioB ==
    /\ lastB.op = "add"
    /\ lastB.chunkIndex = 0
    /\ lastB.isComplete
    /\ lastB.waiting = <<1>>
    /\ lastB.released = 0
    /\ ReleasedIndices = <<0, 1>>

\* C4 as stated: once every segment of the chunks 0, 1 and 2 has been added, in
\* whatever order, the buffer has emitted chunk 0, then chunk 1, then chunk 2,
\* each once.
C4_AllEmittedInOrder ==
    toDeliver = {} => ReleasedIndices = <<0, 1, 2>>

\* C4 as amended: the same, provided that for each chunk the segment that
\* marks it complete is the last of its segments to be added.
C4_AllEmittedWhenCompleteLast ==
    (toDeliver = {} /\ completeLast) => ReleasedIndices = <<0, 1, 2>>

\* the chunks 1 and 2 were waiting, complete, when the completing segment of
\* chunk 0 arrived as the last segment of all; 0, 1 and 2 were then emitted
C4_ChunkZeroLast ==
    /\ toDeliver = {}
    /\ completeLast
    /\ lastB.chunkIndex = 0
    /\ lastB.waiting = <<0, 1, 2>>
    /\ lastB.released = 0
    /\ ReleasedIndices = <<0, 1, 2>>

\* an addAudioChunk call for an index the buffer has already emitted
RedeliveryStep ==
    /\ nBufCalls' = nBufCalls + 1
    /\ lastB'.op = "add"
    /\ \E j \in 1..Len(b.released) : b.released[j].chunkIndex = lastB'.chunkIndex

\* C16: a segment re-delivered for an index already emitted changes nothing:
\* onAudioReady and onBufferStatus are not invoked, and the pending queue,
\* nextExpectedIndex and the set of processed indices stay as they were,
\* whatever the payload and the completeness flag.
C16_RedeliveryIsNoOp ==
    [][RedeliveryStep => b' = b]_vars

\* a complete segment has just been re-delivered for the emitted index 0
\* while index 2 was waiting for index 1: nothing was emitted
C16_RedeliveredWhileWaiting ==
    /\ lastB.op = "add"
    /\ lastB.chunkIndex = 0
    /\ lastB.isComplete
    /\ lastB.wasProcessed
    /\ lastB.waiting = <<2>>
    /\ ReleasedIndices = <<0>>
    /\ GetBufferStatus(b).waitingIndexes = <<2>>

\* the indices of the entries the buffer holds
QueueIndices(s) == {s.audioQueue[k].chunkIndex : k \in 1..Len(s.audioQueue)}

\* the indices above the expected one that are released with it when it
\* completes: those reached from it through entries held and marked complete
DrainedWith(s) ==
    {m \in (s.nextExpectedIndex + 1)..MaxIndex :
        \A n \in (s.nextExpectedIndex + 1)..m :
            \E k \in 1..Len(s.audioQueue) :
                /\ s.audioQueue[k].chunkIndex = n
                /\ s.audioQueue[k].isComplete}

\* an addAudioChunk call for an index not yet emitted
AddStep ==
    /\ nBufCalls' = nBufCalls + 1
    /\ lastB'.op = "add"
    /\ ~lastB'.wasProcessed

\* the call of this step completes the expected index
CompletesExpected ==
    /\ lastB'.chunkIndex = b.nextExpectedIndex
    /\ lastB'.isComplete

\* C18 as stated: while the expected index has not completed nothing is
\* released and the reported depth is the number of distinct higher indices
\* received; when it completes, everything pending is released, in order.
C18_StallThenReleaseAll ==
    [][AddStep =>
          IF CompletesExpected
          THEN /\ b'.audioQueue = <<>>
               /\ \A j \in 1..Len(b'.released) : b'.released[j].chunkIndex = j - 1
          ELSE /\ b'.released = b.released
               /\ b'.status.queuedChunks =
                      Cardinality({x \in QueueIndices(b) \cup {lastB'.chunkIndex} :
                                      x > b.nextExpectedIndex})]_vars

\* C18 as amended: while the expected index has not completed nothing is
\* released and the reported depth is the number of distinct indices held, the
\* expected one included if a segment of it has arrived; when it completes,
\* it is released together with the unbroken run of following indices whose
\* entries are marked complete, in ascending order, and the rest stay pending.
C18_StallThenReleaseRun ==
    [][AddStep =>
          LET e == b.nextExpectedIndex
              held == QueueIndices(b) \cup {lastB'.chunkIndex}
              run == IF CompletesExpected THEN {e} \cup DrainedWith(b) ELSE {}
          IN  /\ ReleasedIndices' =
                     ReleasedIndices \o [j \in 1..Cardinality(run) |-> e + j - 1]
              /\ QueueIndices(b') = held \ run
              /\ b'.status.queuedChunks = Cardinality(held \ run)
              /\ GetBufferStatus(b').queuedChunks = Cardinality(held \ run)
              /\ GetBufferStatus(b').nextExpectedIndex = e + Cardinality(run)]_vars

\* index 0 has arrived incomplete and the indices 1 and 2 complete: nothing
\* is released and the reported depth is 3
C18_StalledBehindZero ==
    /\ lastB.op = "add"
    /\ b.released = <<>>
    /\ GetBufferStatus(b).waitingIndexes = <<0, 1, 2>>
    /\ ~b.audioQueue[1].isComplete
    /\ b.audioQueue[2].isComplete
    /\ b.audioQueue[3].isComplete
    /\ b.status = [queuedChunks |-> 3, nextExpected |-> 0]

ResetStep ==
    /\ nBufCalls' = nBufCalls + 1
    /\ lastB'.op = "reset"

\* C29: reset() leaves the buffer as it was when set up, with its callbacks
\* still registered (only the last reported status stays): nothing pending,
\* nextExpectedIndex 0, no index recorded as released.  From then on only
\* segments added after the reset are emitted, index 0 first and every
\* index at most once.
C29_ResetStartsAfresh ==
    /\ [](\A j \in 1..Len(b.released) :
             /\ b.released[j].chunkIndex = j - 1
             /\ Len(b.released[j].audioData) = Len(added[j - 1]))
    /\ [][ResetStep =>
             /\ b.onAudioReadyCallback /\ b.onBufferStatusCallback
             /\ b' = [MountedBuffer EXCEPT !.status = b.status]]_vars

\* reset() has just wiped a buffer that had released index 0 and held a
\* pending entry
C29_ResetWithWorkPending ==
    /\ lastB.op = "reset"
    /\ lastB.released > 0
    /\ lastB.waiting # <<>>
    /\ b.processedChunks = {}
    /\ b.audioQueue = <<>>

\* the segments segs one after the other in one string
RECURSIVE Concatenated(_)
Concatenated(segs) ==
    IF Len(segs) = 0 THEN ""
    ELSE Concatenated(SubSeq(segs, 1, Len(segs) - 1)) \o segs[Len(segs)]

\* C28: since the last reset(), every released index has exactly one
\* emission, whose payload is the segments added for that index, all of them
\* and in the order they were added, in one string; and a released index has
\* no entry left in the pending queue
C28_OneEmissionAllSegments ==
    /\ \A i \in b.processedChunks :
          Cardinality({j \in 1..Len(b.released) : b.released[j].chunkIndex = i}) = 1
    /\ \A j \in 1..Len(b.released) :
          /\ b.released[j].chunkIndex \in b.processedChunks
          /\ b.released[j].audioData = Concatenated(added[b.released[j].chunkIndex])
          /\ b.released[j].chunkIndex \notin QueueIndices(b)

\* an index was released whose entry had gathered two different segments
C28_TwoSegmentsJoined ==
    /\ lastB.op = "add"
    /\ Len(b.released) > lastB.released
    /\ \E j \in 1..Len(b.released) :
          /\ added[b.released[j].chunkIndex] = <<"b", "a">>
          /\ b.released[j].audioData = "ba"

\* C30: after every call the pending queue is strictly sorted by chunkIndex
\* (so no index twice), the released-index set is {0..nextExpectedIndex-1},
\* every pending index is at least nextExpectedIndex, and nothing releasable
\* is left pending (the queue is empty, or its first entry is not the
\* expected index, or it is not complete)
C30_BufferShape ==
    /\ \A i, j \in 1..Len(b.audioQueue) :
          i < j => b.audioQueue[i].chunkIndex < b.audioQueue[j].chunkIndex
    /\ b.processedChunks = 0..(b.nextExpectedIndex - 1)
    /\ \A i \in 1..Len(b.audioQueue) :
          b.audioQueue[i].chunkIndex >= b.nextExpectedIndex
    /\ \/ Len(b.audioQueue) = 0
       \/ b.audioQueue[1].chunkIndex # b.nextExpectedIndex
       \/ ~b.audioQueue[1].isComplete

\* index 0 was released, index 2 was waiting, and a segment for index 1 has
\* just been placed in front of it
C30_InsertedInFront ==
    /\ lastB.op = "add"
    /\ lastB.chunkIndex = 1
    /\ lastB.waiting = <<2>>
    /\ b.nextExpectedIndex = 1
    /\ GetBufferStatus(b).waitingIndexes = <<1, 2>>

\* the completeness flags of the pending entries of s, by index
Flags(s) ==
    [i \in QueueIndices(s) |->
        LET k == CHOOSE k \in 1..Len(s.audioQueue) : s.audioQueue[k].chunkIndex = i
        IN  s.audioQueue[k].isComplete]

\* C31: an addAudioChunk call for a not yet released index leaves the entry
\* of that index, if still pending, with the call's isComplete as its
\* flag and changes the flag of no other pending entry (so the flag is the
\* isComplete of the latest call for the index); a call with
\* isComplete=false on an entry marked complete clears the flag and the
\* entry stays pending
C31_FlagFollowsLastCall ==
    [][AddStep =>
         /\ \A i \in QueueIndices(b') :
               Flags(b')[i] = IF i = lastB'.chunkIndex THEN lastB'.isComplete
                              ELSE Flags(b)[i]
         /\ (lastB'.wasComplete /\ ~lastB'.isComplete)
               => lastB'.chunkIndex \in QueueIndices(b')]_vars

\* index 1, waiting complete behind the missing index 0, has just got a
\* segment with isComplete=false: it is pending and no longer complete
C31_FlagCleared ==
    /\ lastB.op = "add"
    /\ lastB.chunkIndex = 1
    /\ lastB.wasComplete
    /\ ~lastB.isComplete
    /\ 1 \in QueueIndices(b)
    /\ ~Flags(b)[1]

\* C27: no addAudioChunk call, a call made from inside the onAudioReady
\* callback included, finds a chunk emitted whose index is not recorded as
\* released or nextExpectedIndex not advanced past it, and the emissions
\* come in strictly ascending order of index (none twice, none out of order)
C27_CycleAtomic ==
    /\ \A j \in 1..Len(lastB.inner) :
          /\ lastB.inner[j].recorded
          /\ lastB.inner[j].nextExpected > lastB.inner[j].emitted
    /\ \A i, j \in 1..Len(b.released) :
          i < j => b.released[i].chunkIndex < b.released[j].chunkIndex

\* ------------------------------------------------- claims on the validator

\* C5 as stated: under a watermark installed by setExpectedText, validateChunk(t)
\* is valid if and only if t.trim() equals the watermark.
C5_ValidIffTrimEqualsWatermark ==
    armed => \A t \in Texts :
                 ValidateChunk(cv, t).isValid <=> (Trim(t) = cv.expectedText)

\* C5 as amended: validateChunk(t) is valid if and only if the watermark is not
\* empty and t.trim() equals it, character for character.
C5_ValidIffNonEmptyMatch ==
    \A t \in Texts :
        ValidateChunk(cv, t).isValid
            <=> (cv.expectedText # <<>> /\ Trim(t) = cv.expectedText)

\* a transcript with surrounding white space has just been accepted, and one
\* differing from the watermark only in case would be rejected
C5_AcceptedAfterTrim ==
    /\ lastV.op = "validate"
    /\ lastV.isValid
    /\ lastV.text # cv.expectedText
    /\ Trim(lastV.text) = cv.expectedText
    /\ cv.expectedText = <<"h">>
    /\ ~ValidateChunk(cv, <<"H">>).isValid

\* C6: from construction or reset() until the next setExpectedText, validateChunk
\* rejects every transcript.
C6_FailClosed ==
    ~armed => \A t \in Texts : ~ValidateChunk(cv, t).isValid

\* Scenario D: a transcript was accepted, reset() was called, and the same
\* transcript has just been rejected
C6_ScenarioD ==
    /\ ~armed
    /\ lastV.op = "validate"
    /\ lastV.validBefore
    /\ ~lastV.isValid
    /\ lastV.text = <<"H", "h">>

\* the trimmed transcripts the validator s accepts
ValidTranscripts(s) == {Trim(t) : t \in {u \in Texts : ValidateChunk(s, u).isValid}}

\* C19: in no state are two different trimmed transcripts valid: only the
\* watermark in force is; and a setExpectedText call that changes the watermark
\* makes the transcript that matched the watermark before it invalid.
C19_OneWatermark ==
    /\ [](/\ Cardinality(ValidTranscripts(cv)) <= 1
          /\ ValidTranscripts(cv) \subseteq {cv.expectedText})
    /\ [][cv'.expectedText # cv.expectedText =>
             ~ValidateChunk(cv', cv.expectedText).isValid]_vars

\* a transcript that was accepted under the watermark before has just been
\* rejected under the watermark that replaced it
C19_StaleRejected ==
    /\ armed
    /\ cv.expectedText = <<"H">>
    /\ lastV.op = "validate"
    /\ lastV.text = <<"h">>
    /\ lastV.validBefore
    /\ ~lastV.isValid

\* a validator without history whose current watermark is the one in force:
\* built, and given the text of the last setExpectedText call if there is one
WithoutHistory ==
    IF installed = <<>> THEN NewValidator
    ELSE SetExpectedText(NewValidator, installed[1])

\* C23: the verdict depends on the current watermark and the transcript alone:
\* after any sequence of setExpectedText, reset and validateChunk calls the
\* validator gives every transcript the verdict a validator without history
\* and with the same current watermark gives it.
C23_VerdictIgnoresHistory ==
    \A t \in Texts :
        ValidateChunk(cv, t).isValid = ValidateChunk(WithoutHistory, t).isValid

\* a transcript accepted by the validateChunk call before has just been
\* accepted again, the watermark in force installed from another text that
\* trims to the same
C23_AcceptedAgain ==
    /\ installed = << <<"h", " ">> >>
    /\ lastV.op = "validate"
    /\ lastV.text = <<" ", "h">>
    /\ lastV.validBefore
    /\ lastV.isValid

\* a step of one of the methods that only read the validator
ReadStep ==
    \/ ValidateChunkCall
    \/ ApplyValidationCall
    \/ GetStateCall
    \/ IsActiveCall
    \/ GetExpectedTextCall

\* C38: validateChunk, applyValidation, getState, isActive and
\* getExpectedText leave the watermark as it is; isActive() (and the isActive
\* of getState()) is true exactly when the watermark is not empty, which is
\* exactly when some transcript is accepted; setExpectedText with an empty or
\* whitespace-only text leaves the validator as reset() does, inactive; and
\* an empty or whitespace-only transcript is rejected whatever the watermark.
C38_ReadsAndActivity ==
    /\ [](/\ IsActive(cv) <=> GetExpectedText(cv) # <<>>
          /\ GetState(cv).isActive = IsActive(cv)
          /\ GetState(cv).expectedText = GetExpectedText(cv)
          /\ IsActive(cv) <=> \E t \in Texts : ValidateChunk(cv, t).isValid
          /\ \A t \in Texts :
                Trim(t) = <<>>
                   => /\ SetExpectedText(cv, t) = ValidatorReset(cv)
                      /\ ~IsActive(SetExpectedText(cv, t))
                      /\ ~ValidateChunk(cv, t).isValid)
    /\ [][cv' # cv => ~ReadStep]_vars

\* isActive() has answered false after setExpectedText was given white space
C38_BlankTextInactive ==
    /\ armed
    /\ installed # <<>>
    /\ installed[1] # <<>>
    /\ Trim(installed[1]) = <<>>
    /\ lastV.op = "isActive"
    /\ ~lastV.isValid

\* ---------------------------------------- claims on the interruption page

\* the lines whose audio the streamer holds or has held since the last
\* resetSession(): raw, queued, scheduled or started
HandedToStreamer ==
    {w.audioDataChunks[i] : i \in 1..Len(w.audioDataChunks)}
        \cup {w.bufferQueue[i].id : i \in 1..Len(w.bufferQueue)}
        \cup {w.scheduledSources[i].id : i \in 1..Len(w.scheduledSources)}
        \cup {w.started[i].id : i \in 1..Len(w.started)}

\* a step that processes a TTS line
LineStep == nCalls' = nCalls + 1 /\ last'.op = "line"

\* C20: the audio of a line reaches enqueue only if validateChunk accepted the
\* line's transcript under the watermark in force when the line is processed;
\* a rejected line changes nothing in the streamer and never gets into it.
C20_ValidatorGatesScheduler ==
    /\ [](rejected \cap HandedToStreamer = {})
    /\ [][LineStep =>
             IF /\ cv.expectedText # <<>>
                /\ Trim(lastV'.text) = cv.expectedText
             THEN /\ nCalls' \notin rejected'
                  /\ w'.audioDataChunks = Append(w.audioDataChunks, nCalls')
             ELSE /\ nCalls' \in rejected'
                  /\ w' = w]_vars

\* a line of the interrupted batch arrived after the watermark had been
\* replaced and was dropped; the lines before and after it were played
C20_StaleLineDropped ==
    /\ rejected = {2}
    /\ w.audioDataChunks = <<1, 3>>
    /\ lastV.isValid
    /\ lastV.text = <<"H">>
    /\ Len(w.started) = 1
    /\ w.started[1].id = 3

\* ------------------------------- claims on the page's concurrent handlers

\* C25: once stopAudio() or stopGeneration() has interrupted a generation,
\* its loop sends no further text batch and installs no further watermark
\* (it stays at the batch it was at), and no line of its responses is
\* accepted and enqueued any more, whatever happens next
C25_InterruptedStaysDead ==
    [][\A k \in DOMAIN page.acts :
          page.acts[k].kind = "generation" /\ page.acts[k].interrupted
          => /\ page'.acts[k].i = page.acts[k].i
             /\ ~(nCalls' = nCalls + 1 /\ page'.lineOf = k /\ lastV'.isValid)]_vars

\* C26: the watermark is empty or the text of the batch started last, the
\* batch the most recently begun activity is at
C26_WatermarkOfLatest ==
    cv.expectedText \in
        {<<>>} \cup {BatchOf(page.acts[k]) : k \in {Len(page.acts)} \ {0}}

\* ---------------------------------------------- claims on the chunked page

\* C32: a run that stopGeneration() has stopped sends no further text chunk
\* to the TTS endpoint, in any of the three modes
C32_StoppedSendsNothing ==
    [][\A r \in DOMAIN chunked.runs :
          chunked.runs[r].stopped
          => chunked'.runs[r].sent = chunked.runs[r].sent]_vars

\* C33: within one buffered run at most one TTS request is in flight, and
\* the requests issued so far are for the indices 0, 1, 2, ... in this
\* order, none twice, whatever the order in which the chunks arrived
C33_OneRequestAtATime ==
    \A r \in DOMAIN chunked.runs :
        chunked.runs[r].mode = "buffered"
        => /\ Cardinality(chunked.runs[r].inflight) <= 1
           /\ \A j \in 1..Len(chunked.runs[r].sent) :
                 chunked.runs[r].sent[j] = j - 1

\* chunk 2 has arrived before chunk 1: the request of chunk 0 has settled,
\* its timer has fired, and the run waits for chunk 1 with nothing in flight
C33_WaitsForMissingIndex ==
    \E r \in DOMAIN chunked.runs :
        /\ chunked.runs[r].mode = "buffered"
        /\ ~chunked.runs[r].stopped
        /\ chunked.runs[r].sent = <<0>>
        /\ chunked.runs[r].nextTTSIndex = 1
        /\ chunked.runs[r].timers = 0
        /\ 2 \in chunked.runs[r].textChunks
        /\ 1 \in chunked.runs[r].toArrive
        /\ chunked.runs[r].inflight = {}

\* C34: a buffered run that is not stopped, whose chunks all arrive and
\* whose requests all settle, well or with an error, gets every index
\* 0..n-1 requested and finishes with isGenerating = false
C34_BufferedRunFinishes ==
    \A r \in 1..MaxRuns :
        (Len(chunked.runs) >= r)
            ~> (/\ Len(chunked.runs) >= r
                /\ chunked.runs[r].pc = "done"
                /\ chunked.runs[r].sent = [j \in 1..NumChunks |-> j - 1]
                /\ chunked.runs[r].inflight = {}
                /\ ~chunked.isGenerating)

\* a buffered run has finished after the request of chunk 0 failed and
\* those of the following chunks were sent all the same
C34_FinishedDespiteFailure ==
    \E r \in DOMAIN chunked.runs :
        /\ chunked.runs[r].mode = "buffered"
        /\ chunked.runs[r].pc = "done"
        /\ 0 \in chunked.runs[r].failed
        /\ Len(chunked.runs[r].sent) = NumChunks
        /\ ~chunked.isGenerating

====
